---- MODULE Spec2Model ----
(***************************************************************************)
(* A model of the header-only maths library: the scalar helpers of util.h   *)
(* and the Vec<N,T> / Swizzle<T,SW...> types with their operators.          *)
(*                                                                         *)
(* Every function of the library is pure; the state of the model is the    *)
(* storage the calls read and write (a vector's component array, the        *)
(* in/out references amin/amax, the loop variables n/exponent), the call    *)
(* being made (its arguments) and what it returned.  Each family of         *)
(* functions has its own specification (SpecSwizzle, SpecMorton, ...):      *)
(* Init draws the arguments from bounded sets and one action applies one    *)
(* function, or one step of its loop.                                       *)
(*                                                                         *)
(* Vectors are functions over 0..N-1, as the C array T v[N] is indexed.     *)
(* Index lists (the template pack SW...) are sequences, so the element the  *)
(* code calls i1[x] is i1[x+1] here.                                        *)
(***************************************************************************)
EXTENDS Integers, Sequences, FiniteSets, TLC

VARIABLES
    pc,        \* position of the program: "start", then the call that has run
    call,      \* the call made: a record of its name and arguments
    ret,       \* what the call returned (or wrote to its out-parameters)
    v,         \* storage of the vector object the swizzle views alias (T v[N])
    amin,      \* the in/out reference T& amin of minmax / update_minmax
    amax,      \* the in/out reference T& amax of minmax / update_minmax
    n,         \* loop variable n of the power-of-two rounding loops (bit set)
    exponent   \* loop variable exponent of the power-of-two rounding loops

vars == <<pc, call, ret, v, amin, amax, n, exponent>>

None == "none"

(***************************************************************************)
(* Bounds of the model.                                                    *)
(***************************************************************************)
\* component values of the vectors assigned through swizzles: 1..MaxVal
MaxVal == 2
\* Morton coordinates: every subset of the MortonSpan lowest bits joins the samples
MortonSpan == 2
\* power-of-two rounding: every n below 2^Pow2Span joins the samples
Pow2Span == 3
\* scalar arguments of min, max, minmax, update_minmax, clamp: -MaxNum..MaxNum
MaxNum == 1
\* calls of update_minmax made in a row on the same pair of references
MaxUpdates == 3
\* vectors in arithmetic have dimension 1..MaxDim
MaxDim == 2
\* writes made in a row to the components of one vector
MaxWrites == 3
\* real arguments are the multiples of 1/GridDen between -MaxReal and MaxReal
GridDen == 4
MaxReal == 2
\* the significands of the floats in play have numerator and denominator
\* below 2^MantissaSpan
MantissaSpan == 10

(***************************************************************************)
(* Vec<N,T> and Swizzle<T,SW...>                                           *)
(***************************************************************************)
\* the dimensions with a specialisation carrying swizzle members
SwizzleDims == {2, 3, 4}

Val == 1..MaxVal

\* Vec<N,T>(T value_for_all)
Vec_value_for_all(N, value_for_all) == [i \in 0..(N - 1) |-> value_for_all]

\* Vec<4,T>(T v0, T v1, T v2, T v3)
Vec4(v0, v1, v2, v3) == [i \in 0..3 |-> CASE i = 0 -> v0 [] i = 1 -> v1
                                          [] i = 2 -> v2 [] OTHER -> v3]

\* Vec<3,T>(T v0, T v1, T v2)
Vec3(v0, v1, v2) == [i \in 0..2 |-> CASE i = 0 -> v0 [] i = 1 -> v1 [] OTHER -> v2]

\* Vec<2,T>(T v0, T v1)
Vec2(v0, v1) == [i \in 0..1 |-> IF i = 0 THEN v0 ELSE v1]

\* The index packs SW... of the swizzle views of a vector of dimension N: every
\* list of two to four component indices below N, repeated indices included.
SwizzleLists(N) == UNION {[1..k -> 0..(N - 1)] : k \in 2..4}

\* The named members the claims use: x, y, z, w are components 0, 1, 2, 3.
xyzw == <<0, 1, 2, 3>>
wzyx == <<3, 2, 1, 0>>

\* Swizzle::operator=(const Swizzle<T2, SW2...>& lhs): the loop
\*   for (x = 0; x < ss; ++x) v[i1[x]] = lhs.v[i2[x]];
\* from iteration x (counted from 1) on.  dst is this->v and src is lhs.v; when
\* both swizzles are members of the same vector they are the same storage
\* (aliased), and every write is seen by the later reads.
RECURSIVE Swizzle_assign_swizzle_loop(_, _, _, _, _, _)
Swizzle_assign_swizzle_loop(dst, src, aliased, i1, i2, x) ==
    IF x > Len(i1)
    THEN dst
    ELSE LET from == IF aliased THEN dst ELSE src
             next == [dst EXCEPT ![i1[x]] = from[i2[x]]]
         IN  Swizzle_assign_swizzle_loop(next, src, aliased, i1, i2, x + 1)

Swizzle_assign_swizzle(dst, src, aliased, i1, i2) ==
    Swizzle_assign_swizzle_loop(dst, src, aliased, i1, i2, 1)

\* Swizzle::operator=(const Vec<N, T2>& lhs): the loop
\*   for (x = 0; x < N; ++x) v[i1[x]] = lhs.v[x];
RECURSIVE Swizzle_assign_vec_loop(_, _, _, _)
Swizzle_assign_vec_loop(dst, lhs, i1, x) ==
    IF x > Len(i1)
    THEN dst
    ELSE Swizzle_assign_vec_loop([dst EXCEPT ![i1[x]] = lhs[x - 1]], lhs, i1, x + 1)

Swizzle_assign_vec(dst, lhs, i1) == Swizzle_assign_vec_loop(dst, lhs, i1, 1)

\* A gather that drops the index list and copies the leading components.
Vec_from_swizzle_unindexed(src, ii) == [i \in 0..(Len(ii) - 1) |-> src[i]]

\* Vec<K,T>(const Swizzle<T2, SW...>& lhs) and Vec<K,T>::operator=(const Swizzle&):
\*   for (i = 0; i < ii.size(); ++i) v[i] = lhs.v[ii[i]];
Vec_from_swizzle(src, ii) == [i \in 0..(Len(ii) - 1) |-> src[ii[i + 1]]]

\* The vector objects a program builds before it swizzles them.
InitialVecs(N) ==
    {Vec_value_for_all(N, c) : c \in Val}
        \cup (CASE N = 2 -> {Vec2(1, 2)}
                [] N = 3 -> {Vec3(1, 2, 3)}
                [] OTHER -> {Vec4(1, 2, 3, 4)})

Dim(vec) == Cardinality(DOMAIN vec)

InitSwizzle ==
    /\ pc = "start"
    /\ call = [op |-> None]
    /\ ret = None
    /\ v \in UNION {InitialVecs(N) : N \in SwizzleDims}
    /\ amin = 0
    /\ amax = 0
    /\ n = {}
    /\ exponent = 0

\* v.<i1> = v.<i2>: both swizzles are members of the same vector v.  The
\* static_assert rejects lists of different arity at compile time.
SwizzleAssignSelf ==
    /\ pc = "start"
    /\ \E i1 \in SwizzleLists(Dim(v)) :
       \E i2 \in SwizzleLists(Dim(v)) :
          /\ Len(i1) = Len(i2)
          /\ v' = Swizzle_assign_swizzle(v, v, TRUE, i1, i2)
          /\ call' = [op |-> "swizzle=swizzle", v0 |-> v, i1 |-> i1, i2 |-> i2]
    /\ pc' = "assigned"
    /\ UNCHANGED <<ret, amin, amax, n, exponent>>

\* The sources assigned through a swizzle of arity k: the vectors Vec<k,T>.
SourceVecs(k) == [0..(k - 1) -> Val]

\* v.<i1> = u for a separate vector u.  The static_assert requires u's dimension
\* to be the arity of i1.  The operator has no return statement: after the loop
\* control flows off the end of a function returning a reference.  The g++
\* builds of the workflow (no -O) survive that, the caller discarding the
\* result; its clang++ builds (no -O) end in a trap.
SwizzleAssignVec ==
    /\ pc = "start"
    /\ \E i1 \in SwizzleLists(Dim(v)) :
       \E u \in SourceVecs(Len(i1)) :
          /\ v' = Swizzle_assign_vec(v, u, i1)
          /\ call' = [op |-> "swizzle=vec", v0 |-> v, i1 |-> i1, u |-> u]
    /\ pc' \in {"assigned", "trapped"}
    /\ UNCHANGED <<ret, amin, amax, n, exponent>>

\* Vec<K,T> r = v.<ii>, after an assignment through a swizzle: the list just
\* assigned through, or the identity list of the same arity.
VecFromSwizzle ==
    /\ pc = "assigned"
    /\ call.op = "swizzle=vec"
    /\ \E ii \in {call.i1, [x \in 1..Len(call.i1) |-> x - 1]} :
          /\ ii \in SwizzleLists(Dim(v))
          /\ ret' = Vec_from_swizzle(v, ii)
          /\ call' = [call EXCEPT !.op = "vec=swizzle"] @@ [ii |-> ii]
    /\ pc' = "gathered"
    /\ UNCHANGED <<v, amin, amax, n, exponent>>

NextSwizzle == SwizzleAssignSelf \/ SwizzleAssignVec \/ VecFromSwizzle

SpecSwizzle == InitSwizzle /\ [][NextSwizzle]_vars

\* an index list without a repeated index
NoRepeat(ii) == \A x, y \in DOMAIN ii : ii[x] = ii[y] => x = y

\* C1: for v = (1,2,3,4), the assignment v.wzyx = v.xyzw leaves v = (4,3,2,1).
\* The loop copies in place: it yields (1,2,2,1).
C1_ReversedBySelfAssign ==
    (/\ pc = "assigned"
     /\ call.op = "swizzle=swizzle"
     /\ call.v0 = Vec4(1, 2, 3, 4)
     /\ call.i1 = wzyx
     /\ call.i2 = xyzw) => v = Vec4(4, 3, 2, 1)

Bits(w) == 0..(w - 1)

\* x << k on a word of w bits
Shl(x, k, w) == {i + k : i \in x} \cap Bits(w)

\* a shift that leaves the word as it is
Shr_none(x, k) == x

\* x >> k
Shr(x, k) == {i - k : i \in {j \in x : j >= k}}

\* a 64-bit literal 0xHHHHHHHHHHHHHHHH from its sixteen hexadecimal digits, the
\* most significant first
Hex64(digits) ==
    {i \in Bits(64) : (digits[16 - (i \div 4)] \div (2 ^ (i % 4))) % 2 = 1}

Mask_0000FFFF0000FFFF == Hex64(<<0, 0, 0, 0, 15, 15, 15, 15, 0, 0, 0, 0, 15, 15, 15, 15>>)
Mask_00FF00FF00FF00FF == Hex64(<<0, 0, 15, 15, 0, 0, 15, 15, 0, 0, 15, 15, 0, 0, 15, 15>>)
Mask_0F0F0F0F0F0F0F0F == Hex64(<<0, 15, 0, 15, 0, 15, 0, 15, 0, 15, 0, 15, 0, 15, 0, 15>>)
Mask_3333333333333333 == Hex64(<<3, 3, 3, 3, 3, 3, 3, 3, 3, 3, 3, 3, 3, 3, 3, 3>>)
Mask_5555555555555555 == Hex64(<<5, 5, 5, 5, 5, 5, 5, 5, 5, 5, 5, 5, 5, 5, 5, 5>>)
Mask_00000000FFFFFFFF == Hex64(<<0, 0, 0, 0, 0, 0, 0, 0, 15, 15, 15, 15, 15, 15, 15, 15>>)

(***************************************************************************)
(* morton_xy2d, morton_1, morton_d2xy                                      *)
(***************************************************************************)
\* the five spreading steps morton_xy2d applies to x and to y
morton_spread(x0) ==
    LET x1 == (x0 \cup Shl(x0, 16, 64)) \cap Mask_0000FFFF0000FFFF
        x2 == (x1 \cup Shl(x1, 8, 64)) \cap Mask_00FF00FF00FF00FF
        x3 == (x2 \cup Shl(x2, 4, 64)) \cap Mask_0F0F0F0F0F0F0F0F
        x4 == (x3 \cup Shl(x3, 2, 64)) \cap Mask_3333333333333333
    IN  (x4 \cup Shl(x4, 1, 64)) \cap Mask_5555555555555555

\* morton_xy2d(u64 x, u64 y, u64* d): the value stored to *d
morton_xy2d(x, y) == morton_spread(x) \cup Shl(morton_spread(y), 1, 64)

\* morton_1 with its last step shifting by 8 instead of 16
morton_1_short_shift(x0) ==
    LET x1 == x0 \cap Mask_5555555555555555
        x2 == (x1 \cup Shr(x1, 1)) \cap Mask_3333333333333333
        x3 == (x2 \cup Shr(x2, 2)) \cap Mask_0F0F0F0F0F0F0F0F
        x4 == (x3 \cup Shr(x3, 4)) \cap Mask_00FF00FF00FF00FF
        x5 == (x4 \cup Shr(x4, 8)) \cap Mask_0000FFFF0000FFFF
        x6 == (x5 \cup Shr(x5, 8)) \cap Mask_00000000FFFFFFFF
    IN  x6 \cap Bits(32)

\* u32 morton_1(u64 x): the even bits of x, packed; the return converts to u32
morton_1(x0) ==
    LET x1 == x0 \cap Mask_5555555555555555
        x2 == (x1 \cup Shr(x1, 1)) \cap Mask_3333333333333333
        x3 == (x2 \cup Shr(x2, 2)) \cap Mask_0F0F0F0F0F0F0F0F
        x4 == (x3 \cup Shr(x3, 4)) \cap Mask_00FF00FF00FF00FF
        x5 == (x4 \cup Shr(x4, 8)) \cap Mask_0000FFFF0000FFFF
        x6 == (x5 \cup Shr(x5, 16)) \cap Mask_00000000FFFFFFFF
    IN  x6 \cap Bits(32)

\* morton_d2xy(u64 d, u64& x, u64& y): the values stored to x and y
morton_d2xy(d) == [x |-> morton_1(d), y |-> morton_1(Shr(d, 1))]

\* The coordinates passed: each single bit 0..32 (bit 32 is the first outside
\* the 32-bit range), all 32 bits, and every combination of the lowest
\* MortonSpan bits with bits 15, 16 and 31.
MortonCoords ==
    {{i} : i \in 0..32}
        \cup {Bits(32)}
        \cup (SUBSET (Bits(MortonSpan) \cup {15, 16, 31}))

InitMorton ==
    /\ pc = "start"
    /\ call = [op |-> None]
    /\ ret = None
    /\ v = None
    /\ amin = 0
    /\ amax = 0
    /\ n = {}
    /\ exponent = 0

\* morton_xy2d(x, y, &d)
MortonEncode ==
    /\ pc = "start"
    /\ \E x \in MortonCoords, y \in MortonCoords :
          /\ call' = [op |-> "morton_xy2d", x |-> x, y |-> y]
          /\ ret' = morton_xy2d(x, y)
    /\ pc' = "encoded"
    /\ UNCHANGED <<v, amin, amax, n, exponent>>

\* morton_d2xy(d, x2, y2) on the code the encoding produced
MortonDecode ==
    /\ pc = "encoded"
    /\ call' = [call EXCEPT !.op = "morton_d2xy"] @@ [d |-> ret]
    /\ ret' = morton_d2xy(ret)
    /\ pc' = "decoded"
    /\ UNCHANGED <<v, amin, amax, n, exponent>>

NextMorton == MortonEncode \/ MortonDecode

SpecMorton == InitMorton /\ [][NextMorton]_vars

\* C3: for all x, y below 2^32, decoding the Morton code of (x, y) gives back
\* x and y, and in the code the bits of x sit at the even positions and the bits
\* of y at the odd positions.
C3_MortonRoundTrip ==
    (pc = "decoded" /\ call.x \subseteq Bits(32) /\ call.y \subseteq Bits(32))
        => /\ ret = [x |-> call.x, y |-> call.y]
           /\ call.d = {2 * i : i \in call.x} \cup {2 * i + 1 : i \in call.y}

\* C3 witness: x = 2^31 + 1 and y = 2^16 + 2^15 round-trip through
\* d = 2^62 + 2^33 + 2^31 + 1.
C3_Witness ==
    /\ pc = "decoded"
    /\ call.x = {0, 31}
    /\ call.y = {15, 16}
    /\ call.d = {0, 31, 33, 62}
    /\ ret = [x |-> {0, 31}, y |-> {15, 16}]

(***************************************************************************)
(* round_up_to_power_of_two, round_down_to_power_of_two                    *)
(***************************************************************************)
\* the width of unsigned int and int
IntBits == 32

\* a decrement that leaves the word as it is
Dec_dropped(x, w) == x

\* --x on an unsigned word of w bits: 0 wraps to 2^w - 1
Dec(x, w) ==
    IF x = {}
    THEN Bits(w)
    ELSE LET low == CHOOSE i \in x : \A j \in x : i <= j
         IN  (x \ {low}) \cup Bits(low)

\* The values `return 1 << exponent` can give.  1 is an int: for exponent up to
\* 30 the result is 2^exponent; for 31 it is the sign bit, which the conversion
\* to the unsigned return type makes 2^31; a shift by the full width of int is
\* undefined, and gives 1 where the machine masks the shift count to five bits
\* and 0 where the shift is folded or the machine shifts the bit out.
ShiftOne(e) == IF e < IntBits THEN {{e}} ELSE {{0}, {}}

\* a < b for two words read as unsigned numbers: the highest bit in which they
\* differ is set in b
WordLess(a, b) == \E i \in b \ a : \A j \in a \ b : j < i

\* The arguments passed: 0, every n below 2^Pow2Span, and 2^e - 1, 2^e and
\* 2^e + 1 for every bit e of the word (2^32 - 1 among them).
Pow2Args ==
    (SUBSET Bits(Pow2Span))
        \cup {{e} : e \in Bits(IntBits)}
        \cup {Bits(e) : e \in 0..IntBits}
        \cup {{0, e} : e \in Bits(IntBits)}

\* ret holds a word throughout: the empty word until a call returns
InitPow2 ==
    /\ pc = "start"
    /\ call = [op |-> None]
    /\ ret = {}
    /\ v = None
    /\ amin = 0
    /\ amax = 0
    /\ n = {}
    /\ exponent = 0

\* round_up_to_power_of_two(n): int exponent = 0; --n;
RoundUpCall ==
    /\ pc = "start"
    /\ \E n0 \in Pow2Args :
          /\ call' = [op |-> "round_up_to_power_of_two", n |-> n0]
          /\ n' = Dec(n0, IntBits)
    /\ exponent' = 0
    /\ pc' = "round_up_loop"
    /\ UNCHANGED <<ret, v, amin, amax>>

\* while (n) { ++exponent; n >>= 1; }
RoundUpLoop ==
    /\ pc = "round_up_loop"
    /\ n # {}
    /\ exponent' = exponent + 1
    /\ n' = Shr(n, 1)
    /\ UNCHANGED <<pc, call, ret, v, amin, amax>>

\* return 1 << exponent;
RoundUpReturn ==
    /\ pc = "round_up_loop"
    /\ n = {}
    /\ ret' \in ShiftOne(exponent)
    /\ pc' = "returned"
    /\ UNCHANGED <<call, v, amin, amax, n, exponent>>

\* round_down_to_power_of_two(n): int exponent = 0;
RoundDownCall ==
    /\ pc = "start"
    /\ \E n0 \in Pow2Args :
          /\ call' = [op |-> "round_down_to_power_of_two", n |-> n0]
          /\ n' = n0
    /\ exponent' = 0
    /\ pc' = "round_down_loop"
    /\ UNCHANGED <<ret, v, amin, amax>>

\* while (n > 1) { ++exponent; n >>= 1; }
RoundDownLoop ==
    /\ pc = "round_down_loop"
    /\ WordLess({0}, n)
    /\ exponent' = exponent + 1
    /\ n' = Shr(n, 1)
    /\ UNCHANGED <<pc, call, ret, v, amin, amax>>

\* return 1 << exponent;
RoundDownReturn ==
    /\ pc = "round_down_loop"
    /\ ~WordLess({0}, n)
    /\ ret' \in ShiftOne(exponent)
    /\ pc' = "returned"
    /\ UNCHANGED <<call, v, amin, amax, n, exponent>>

NextPow2 ==
    \/ RoundUpCall \/ RoundUpLoop \/ RoundUpReturn
    \/ RoundDownCall \/ RoundDownLoop \/ RoundDownReturn

SpecPow2 == InitPow2 /\ [][NextPow2]_vars

\* 1 <= a <= 2^31
InClaimedRange(a) == a # {} /\ ~WordLess({31}, a)

\* C4: for every n with 1 <= n <= 2^31, round_up_to_power_of_two(n) is the
\* smallest power of two >= n and round_down_to_power_of_two(n) is the largest
\* power of two <= n; round_up(5) = 8, round_up(8) = 8, round_down(5) = 4.
C4_PowerOfTwoRounding ==
    (pc = "returned" /\ InClaimedRange(call.n)) =>
        /\ \E e \in Bits(IntBits) : ret = {e}
        /\ call.op = "round_up_to_power_of_two" =>
              /\ ~WordLess(ret, call.n)
              /\ \A e \in Bits(IntBits) : ~WordLess({e}, call.n) => ~WordLess({e}, ret)
              /\ call.n = {0, 2} => ret = {3}
              /\ call.n = {3} => ret = {3}
        /\ call.op = "round_down_to_power_of_two" =>
              /\ ~WordLess(call.n, ret)
              /\ \A e \in Bits(IntBits) : ~WordLess(call.n, {e}) => ~WordLess(ret, {e})
              /\ call.n = {0, 2} => ret = {2}

\* C4 witness: round_up_to_power_of_two(5) has returned 8 after three turns of
\* its loop.
C4_Witness ==
    /\ pc = "returned"
    /\ call = [op |-> "round_up_to_power_of_two", n |-> {0, 2}]
    /\ exponent = 3
    /\ ret = {3}

(***************************************************************************)
(* min, max, clamp                                                         *)
(***************************************************************************)
Num == (0 - MaxNum)..MaxNum

\* std::min(a, b): b when b < a, else a
min2(a, b) == IF b < a THEN b ELSE a

\* std::max(a, b): b when a < b, else a
max2(a, b) == IF a < b THEN b ELSE a

min3(a1, a2, a3) == min2(a1, min2(a2, a3))

min4(a1, a2, a3, a4) == min2(min2(a1, a2), min2(a3, a4))

\* a five-argument min that forgets its last argument
min5_without_a5(a1, a2, a3, a4, a5) == min2(min2(a1, a2), min2(a3, a4))

min5(a1, a2, a3, a4, a5) == min3(min2(a1, a2), min2(a3, a4), a5)

min6(a1, a2, a3, a4, a5, a6) == min3(min2(a1, a2), min2(a3, a4), min2(a5, a6))

max3(a1, a2, a3) == max2(a1, max2(a2, a3))

max4(a1, a2, a3, a4) == max2(max2(a1, a2), max2(a3, a4))

max5(a1, a2, a3, a4, a5) == max3(max2(a1, a2), max2(a3, a4), a5)

max6(a1, a2, a3, a4, a5, a6) == max3(max2(a1, a2), max2(a3, a4), max2(a5, a6))

\* a clamp whose second test compares with the lower bound again
clamp_lower_twice(a, lower, upper) ==
    IF a < lower THEN lower
    ELSE IF a > lower THEN upper
    ELSE a

clamp(a, lower, upper) ==
    IF a < lower THEN lower
    ELSE IF a > upper THEN upper
    ELSE a

\* the argument lists of the overloads taking k scalars
Args(k) == [1..k -> Num]

\* min / max of the overload the length of the argument list selects
min_of(a) ==
    CASE Len(a) = 3 -> min3(a[1], a[2], a[3])
      [] Len(a) = 4 -> min4(a[1], a[2], a[3], a[4])
      [] Len(a) = 5 -> min5(a[1], a[2], a[3], a[4], a[5])
      [] Len(a) = 6 -> min6(a[1], a[2], a[3], a[4], a[5], a[6])

max_of(a) ==
    CASE Len(a) = 3 -> max3(a[1], a[2], a[3])
      [] Len(a) = 4 -> max4(a[1], a[2], a[3], a[4])
      [] Len(a) = 5 -> max5(a[1], a[2], a[3], a[4], a[5])
      [] Len(a) = 6 -> max6(a[1], a[2], a[3], a[4], a[5], a[6])

InitScalar ==
    /\ pc = "start"
    /\ call = [op |-> None]
    /\ ret = None
    /\ v = None
    /\ amin = 0
    /\ amax = 0
    /\ n = {}
    /\ exponent = 0

\* T r = min(a1, ..., ak) for k = 3..6
CallMin ==
    /\ pc = "start"
    /\ \E k \in 3..6 : \E a \in Args(k) :
          /\ call' = [op |-> "min", args |-> a]
          /\ ret' = min_of(a)
    /\ pc' = "returned"
    /\ UNCHANGED <<v, amin, amax, n, exponent>>

\* T r = max(a1, ..., ak) for k = 3..6
CallMax ==
    /\ pc = "start"
    /\ \E k \in 3..6 : \E a \in Args(k) :
          /\ call' = [op |-> "max", args |-> a]
          /\ ret' = max_of(a)
    /\ pc' = "returned"
    /\ UNCHANGED <<v, amin, amax, n, exponent>>

\* T r = clamp(a, lower, upper)
CallClamp ==
    /\ pc = "start"
    /\ \E a \in Args(3) :
          /\ call' = [op |-> "clamp", args |-> a]
          /\ ret' = clamp(a[1], a[2], a[3])
    /\ pc' = "returned"
    /\ UNCHANGED <<v, amin, amax, n, exponent>>

\* a sort whose branch c <= a < b exchanges a and c only
sort_cab_exchanged(a, b, c) ==
    IF a < b
    THEN IF a < c
         THEN IF c < b THEN <<a, c, b>> ELSE <<a, b, c>>
         ELSE <<c, b, a>>
    ELSE IF b < c
         THEN IF a < c THEN <<b, a, c>> ELSE <<b, c, a>>
         ELSE <<c, b, a>>

\* sort(a, b, c): the triple <<a, b, c>> the call leaves in its three reference
\* parameters
sort(a, b, c) ==
    IF a < b
    THEN IF a < c
         THEN IF c < b THEN <<a, c, b>> ELSE <<a, b, c>>
         ELSE <<c, a, b>>
    ELSE IF b < c
         THEN IF a < c THEN <<b, a, c>> ELSE <<b, c, a>>
         ELSE <<c, b, a>>

\* sort(a, b, c); ret is the triple left in a, b, c
CallSort ==
    /\ pc = "start"
    /\ \E a \in Args(3) :
          /\ call' = [op |-> "sort", args |-> a]
          /\ ret' = sort(a[1], a[2], a[3])
    /\ pc' = "returned"
    /\ UNCHANGED <<v, amin, amax, n, exponent>>

NextScalar == CallMin \/ CallMax \/ CallClamp \/ CallSort

SpecScalar == InitScalar /\ [][NextScalar]_vars

\* the values of an argument list
Range(a) == {a[i] : i \in DOMAIN a}

\* C7: the 3-, 4-, 5- and 6-argument min returns one of its arguments that is
\* <= all of them, and max one of its arguments that is >= all of them.
C7_MinMaxOfArguments ==
    /\ (pc = "returned" /\ call.op = "min") =>
           (ret \in Range(call.args) /\ \A x \in Range(call.args) : ret <= x)
    /\ (pc = "returned" /\ call.op = "max") =>
           (ret \in Range(call.args) /\ \A x \in Range(call.args) : ret >= x)

\* C7 witness: min(1, 0, 0, 1, -1) has returned its last argument.
C7_Witness ==
    /\ pc = "returned"
    /\ call = [op |-> "min", args |-> <<1, 0, 0, 1, 0 - 1>>]
    /\ ret = 0 - 1

\* C8: clamp(a, lo, hi) returns r with lo <= r <= hi whenever lo <= hi, and
\* returns a itself whenever lo <= a <= hi.
C8_ClampInRange ==
    (pc = "returned" /\ call.op = "clamp") =>
        LET a == call.args[1]
            lo == call.args[2]
            hi == call.args[3]
        IN  /\ lo <= hi => (lo <= ret /\ ret <= hi)
            /\ (lo <= a /\ a <= hi) => ret = a

\* C8 witness: clamp(1, -1, 0) has returned the upper bound 0.
C8_Witness ==
    /\ pc = "returned"
    /\ call = [op |-> "clamp", args |-> <<1, 0 - 1, 0>>]
    /\ ret = 0

(***************************************************************************)
(* minmax, update_minmax                                                   *)
(* Each operator gives the pair <<amin, amax>> the call leaves in its two   *)
(* reference parameters.                                                   *)
(***************************************************************************)
minmax2(a1, a2) == IF a1 < a2 THEN <<a1, a2>> ELSE <<a2, a1>>

\* a three-argument minmax whose branch a2 <= a1, a2 < a3 always answers a3
minmax3_a3_as_max(a1, a2, a3) ==
    IF a1 < a2
    THEN IF a1 < a3
         THEN <<a1, IF a2 < a3 THEN a3 ELSE a2>>
         ELSE <<a3, IF a1 < a2 THEN a2 ELSE a1>>
    ELSE IF a2 < a3
         THEN <<a2, a3>>
         ELSE <<a3, a1>>

minmax3(a1, a2, a3) ==
    IF a1 < a2
    THEN IF a1 < a3
         THEN <<a1, IF a2 < a3 THEN a3 ELSE a2>>
         ELSE <<a3, IF a1 < a2 THEN a2 ELSE a1>>
    ELSE IF a2 < a3
         THEN <<a2, IF a1 < a3 THEN a3 ELSE a1>>
         ELSE <<a3, a1>>

minmax4(a1, a2, a3, a4) ==
    IF a1 < a2
    THEN IF a3 < a4
         THEN <<min2(a1, a3), max2(a2, a4)>>
         ELSE <<min2(a1, a4), max2(a2, a3)>>
    ELSE IF a3 < a4
         THEN <<min2(a2, a3), max2(a1, a4)>>
         ELSE <<min2(a2, a4), max2(a1, a3)>>

minmax5(a1, a2, a3, a4, a5) ==
    <<min5(a1, a2, a3, a4, a5), max5(a1, a2, a3, a4, a5)>>

minmax6(a1, a2, a3, a4, a5, a6) ==
    <<min6(a1, a2, a3, a4, a5, a6), max6(a1, a2, a3, a4, a5, a6)>>

minmax_of(a) ==
    CASE Len(a) = 2 -> minmax2(a[1], a[2])
      [] Len(a) = 3 -> minmax3(a[1], a[2], a[3])
      [] Len(a) = 4 -> minmax4(a[1], a[2], a[3], a[4])
      [] Len(a) = 5 -> minmax5(a[1], a[2], a[3], a[4], a[5])
      [] Len(a) = 6 -> minmax6(a[1], a[2], a[3], a[4], a[5], a[6])

\* an update_minmax with its two comparisons turned round
update_minmax_inward(a1, lo, hi) ==
    IF a1 > lo THEN <<a1, hi>>
    ELSE IF a1 < hi THEN <<lo, a1>>
    ELSE <<lo, hi>>

\* update_minmax(a1, amin, amax), lo and hi being the values the references
\* hold at the call
update_minmax(a1, lo, hi) ==
    IF a1 < lo THEN <<a1, hi>>
    ELSE IF a1 > hi THEN <<lo, a1>>
    ELSE <<lo, hi>>

\* The references start with any pair of values, amin > amax included (the
\* caller's variables; minmax overwrites them, update_minmax reads them).
InitMinMax ==
    /\ pc = "start"
    /\ call = [op |-> None]
    /\ ret = None
    /\ v = None
    /\ amin \in Num
    /\ amax \in Num
    /\ n = {}
    /\ exponent = 0

\* minmax(a1, ..., ak, amin, amax) for k = 2..6
CallMinmax ==
    /\ pc = "start"
    /\ \E k \in 2..6 : \E a \in Args(k) :
          /\ call' = [op |-> "minmax", args |-> a]
          /\ amin' = minmax_of(a)[1]
          /\ amax' = minmax_of(a)[2]
    /\ pc' = "minmax"
    /\ UNCHANGED <<ret, v, n, exponent>>

\* an update_minmax call whose write to amin is lost
CallUpdateMinmax_amin_kept ==
    /\ pc \in {"start", "minmax", "update_minmax"}
    /\ \E a1 \in Num :
          LET before == IF call.op = "update_minmax" THEN call.seen ELSE <<>>
              first == IF call.op = "update_minmax" THEN call.first
                       ELSE <<amin, amax>>
          IN  /\ Len(before) < MaxUpdates
              /\ call' = [op |-> "update_minmax", a1 |-> a1, amin0 |-> amin,
                           amax0 |-> amax, seen |-> Append(before, a1),
                           first |-> first]
              /\ amin' = amin
              /\ amax' = update_minmax(a1, amin, amax)[2]
    /\ pc' = "update_minmax"
    /\ UNCHANGED <<ret, v, n, exponent>>

\* update_minmax(a1, amin, amax), on the references as the program or an
\* earlier call left them.  call.seen lists the values passed since the start,
\* call.first is the pair the first of these calls found.
CallUpdateMinmax ==
    /\ pc \in {"start", "minmax", "update_minmax"}
    /\ \E a1 \in Num :
          LET before == IF call.op = "update_minmax" THEN call.seen ELSE <<>>
              first == IF call.op = "update_minmax" THEN call.first
                       ELSE <<amin, amax>>
          IN  /\ Len(before) < MaxUpdates
              /\ call' = [op |-> "update_minmax", a1 |-> a1, amin0 |-> amin,
                           amax0 |-> amax, seen |-> Append(before, a1),
                           first |-> first]
              /\ amin' = update_minmax(a1, amin, amax)[1]
              /\ amax' = update_minmax(a1, amin, amax)[2]
    /\ pc' = "update_minmax"
    /\ UNCHANGED <<ret, v, n, exponent>>

NextMinMax == CallMinmax \/ CallUpdateMinmax

SpecMinMax == InitMinMax /\ [][NextMinMax]_vars

\* C5: update_minmax(a1, amin, amax) called on a pair with amin <= amax never
\* moves a bound inward, changes at most one bound and only to a1, and leaves
\* amin <= a1 <= amax.
C5_UpdateMinmaxOutward ==
    (pc = "update_minmax" /\ call.amin0 <= call.amax0) =>
        /\ amin <= call.amin0
        /\ amax >= call.amax0
        /\ amin = call.amin0 \/ amax = call.amax0
        /\ amin # call.amin0 => amin = call.a1
        /\ amax # call.amax0 => amax = call.a1
        /\ amin <= call.a1
        /\ call.a1 <= amax

\* C5 witness: update_minmax(1, amin, amax) on the pair (-1, 0) has raised amax
\* to 1 and left amin.
C5_Witness ==
    /\ pc = "update_minmax"
    /\ call.a1 = 1
    /\ call.amin0 = 0 - 1
    /\ call.amax0 = 0
    /\ amin = 0 - 1
    /\ amax = 1

\* C6: every minmax overload (2 to 6 arguments, ties included) leaves amin = the
\* least argument and amax = the greatest argument.
C6_MinmaxLeastGreatest ==
    pc = "minmax" =>
        /\ amin \in Range(call.args)
        /\ amax \in Range(call.args)
        /\ \A x \in Range(call.args) : amin <= x /\ x <= amax

\* C6 witness: minmax(1, 0, 1, amin, amax), the three-argument overload on a
\* tie, has left (0, 1).
C6_Witness ==
    /\ pc = "minmax"
    /\ call.args = <<1, 0, 1>>
    /\ amin = 0
    /\ amax = 1

(***************************************************************************)
(* Real arguments.  The functions meant for T = float or double are         *)
(* evaluated on rationals <<numerator, denominator>> in lowest terms with a *)
(* positive denominator, every operation of T being taken exactly.          *)
(***************************************************************************)
Abs(a) == IF a < 0 THEN 0 - a ELSE a

RECURSIVE GCD(_, _)
GCD(a, b) == IF b = 0 THEN a ELSE GCD(b, a % b)

\* the value num / den, den # 0
Rat(num, den) ==
    LET g == GCD(Abs(num), Abs(den))
    IN  IF den < 0 THEN <<(0 - num) \div g, (0 - den) \div g>>
        ELSE <<num \div g, den \div g>>

\* an integer literal or int converted to T
RatOf(k) == <<k, 1>>

RatAdd(a, b) == Rat(a[1] * b[2] + b[1] * a[2], a[2] * b[2])
RatSub(a, b) == Rat(a[1] * b[2] - b[1] * a[2], a[2] * b[2])
RatMul(a, b) == Rat(a[1] * b[1], a[2] * b[2])
RatDiv(a, b) == Rat(a[1] * b[2], a[2] * b[1])
RatLess(a, b) == a[1] * b[2] < b[1] * a[2]
RatLeq(a, b) == a[1] * b[2] <= b[1] * a[2]

\* std::floor(x), then (int)s: the greatest integer not above x
RatFloor(x) == x[1] \div x[2]

(***************************************************************************)
(* float.  A value of type float is zero, an infinity, a NaN, or a number   *)
(* m * 2^e kept as the record [cls |-> "num", m |-> <<num, den>>, e |-> e]  *)
(* with num and den odd.  The exponent range is that of float: a result of  *)
(* magnitude 2^FltMaxExp or more overflows to an infinity, one below half    *)
(* the least subnormal 2^FltMinExp underflows to zero.  The rounding of the  *)
(* significand is not modelled: significands are exact.                     *)
(***************************************************************************)
FltMaxExp == 128
FltMinExp == 0 - 149
\* the least normal float is 2^FltMinNormalExp
FltMinNormalExp == 0 - 126

FltZero == [cls |-> "zero", m |-> <<0, 1>>, e |-> 0]
FltNaN == [cls |-> "nan", m |-> <<0, 1>>, e |-> 0]
\* the infinity of the sign of s
FltInf(s) == [cls |-> "inf", m |-> <<IF s < 0 THEN 0 - 1 ELSE 1, 1>>, e |-> 0]

\* |r| >= 2^k for a significand r, whose numerator and denominator are below
\* 2^MantissaSpan
Pow2Geq(r, k) ==
    IF k >= MantissaSpan THEN FALSE
    ELSE IF k <= 0 - MantissaSpan THEN TRUE
    ELSE IF k >= 0 THEN Abs(r[1]) >= r[2] * (2 ^ k)
    ELSE Abs(r[1]) * (2 ^ (0 - k)) >= r[2]

\* the float nearest to r * 2^e for a rational r # 0: the factors 2 of r move
\* into the exponent, then the range of float is applied
RECURSIVE FltNum(_, _)
FltNum(r, e) ==
    IF r[1] % 2 = 0 THEN FltNum(<<r[1] \div 2, r[2]>>, e + 1)
    ELSE IF r[2] % 2 = 0 THEN FltNum(<<r[1], r[2] \div 2>>, e - 1)
    ELSE IF Pow2Geq(r, FltMaxExp - e) THEN FltInf(r[1])
    ELSE IF ~Pow2Geq(r, (FltMinExp - 1) - e) THEN FltZero
    ELSE [cls |-> "num", m |-> r, e |-> e]

\* the float of an integer k
FltOf(k) == IF k = 0 THEN FltZero ELSE FltNum(<<k, 1>>, 0)

\* x * y
FltMul(x, y) ==
    CASE x.cls = "nan" \/ y.cls = "nan" -> FltNaN
      [] {x.cls, y.cls} = {"zero", "inf"} -> FltNaN
      [] x.cls = "inf" \/ y.cls = "inf" -> FltInf(x.m[1] * y.m[1])
      [] x.cls = "zero" \/ y.cls = "zero" -> FltZero
      [] OTHER -> FltNum(RatMul(x.m, y.m), x.e + y.e)

\* x / y
FltDiv(x, y) ==
    CASE x.cls = "nan" \/ y.cls = "nan" -> FltNaN
      [] x.cls = "zero" /\ y.cls = "zero" -> FltNaN
      [] x.cls = "inf" /\ y.cls = "inf" -> FltNaN
      [] y.cls = "zero" -> FltInf(x.m[1])
      [] x.cls = "inf" -> FltInf(x.m[1] * y.m[1])
      [] x.cls = "zero" \/ y.cls = "inf" -> FltZero
      [] OTHER -> FltNum(RatDiv(x.m, y.m), x.e - y.e)

\* x + y; two numbers are brought to the lower of their exponents
FltAdd(x, y) ==
    CASE x.cls = "nan" \/ y.cls = "nan" -> FltNaN
      [] x.cls = "inf" /\ y.cls = "inf" ->
             IF x.m = y.m THEN x ELSE FltNaN
      [] x.cls = "inf" -> x
      [] y.cls = "inf" -> y
      [] x.cls = "zero" -> y
      [] y.cls = "zero" -> x
      [] OTHER ->
             LET e0 == IF x.e < y.e THEN x.e ELSE y.e
                 r == RatAdd(RatMul(x.m, RatOf(2 ^ (x.e - e0))),
                             RatMul(y.m, RatOf(2 ^ (y.e - e0))))
             IN  IF r[1] = 0 THEN FltZero ELSE FltNum(r, e0)

\* x - y
FltSub(x, y) == FltAdd(x, [y EXCEPT !.m = <<0 - y.m[1], y.m[2]>>])

\* sqrt(x).  The numbers it is applied to here are squares of a float: an even
\* exponent and a significand whose numerator and denominator are squares.
FltSqrt(x) ==
    CASE x.cls = "nan" -> FltNaN
      [] x.cls = "zero" -> FltZero
      [] x.m[1] < 0 -> FltNaN
      [] x.cls = "inf" -> x
      [] OTHER ->
             LET root(k) == CHOOSE s \in 1..k : s * s = k
             IN  FltNum(<<root(x.m[1]), root(x.m[2])>>, x.e \div 2)

\* whether x is a normal number: finite, not zero and not subnormal
FltIsNormal(x) == x.cls = "num" /\ Pow2Geq(x.m, FltMinNormalExp - x.e)

(***************************************************************************)
(* Integer component types and their arithmetic                            *)
(***************************************************************************)
\* the integer component types of the Vec typedefs (char is signed on the
\* targets of the workflow)
IntegerTypes ==
    { [name |-> "unsigned char", bits |-> 8, signed |-> FALSE],
      [name |-> "char", bits |-> 8, signed |-> TRUE],
      [name |-> "unsigned short", bits |-> 16, signed |-> FALSE],
      [name |-> "short", bits |-> 16, signed |-> TRUE],
      [name |-> "int", bits |-> IntBits, signed |-> TRUE] }

IntType == [name |-> "int", bits |-> IntBits, signed |-> TRUE]

\* the component type of Vec2f, Vec3f, Vec4f; its values are the floats above
FloatType == [name |-> "float", bits |-> 32, signed |-> TRUE]

\* the greatest and the least value of a type (2^31 itself is never formed)
MaxOf(T) ==
    IF T.signed
    THEN (2 ^ (T.bits - 2) - 1) + 2 ^ (T.bits - 2)
    ELSE 2 ^ T.bits - 1

MinOf(T) == IF T.signed THEN (0 - MaxOf(T)) - 1 ELSE 0

\* conversion of an int x to a type narrower than int: modulo 2^bits
Narrow(T, x) ==
    IF T.signed
    THEN (((x % (2 ^ T.bits)) + 2 ^ (T.bits - 1)) % (2 ^ T.bits)) - 2 ^ (T.bits - 1)
    ELSE x % (2 ^ T.bits)

\* a + b in int, wrapping round when the sum leaves the type: the add
\* instruction of the unoptimised builds of the workflow
IntAdd(a, b) ==
    LET hi == MaxOf(IntType)
        lo == MinOf(IntType)
    IN  IF b > 0 /\ a > hi - b THEN (a + lo) + (b + lo)
        ELSE IF b < 0 /\ a < lo - b THEN (a + hi + 1) + (b + hi + 1)
        ELSE a + b

\* a - b in int, wrapping round likewise
IntSub(a, b) ==
    LET hi == MaxOf(IntType)
        lo == MinOf(IntType)
    IN  IF b < 0 /\ a > hi + b THEN (a + lo) - (b + hi + 1)
        ELSE IF b > 0 /\ a < lo + b THEN (a + hi + 1) - (b + lo)
        ELSE a - b

\* lhs += rhs on two values of type T: a narrow T is promoted to int, added
\* there and converted back
AddT(T, a, b) ==
    IF T = FloatType THEN FltAdd(a, b)
    ELSE IF T.bits < IntBits THEN Narrow(T, IntAdd(a, b)) ELSE IntAdd(a, b)

\* lhs -= rhs on two values of type T
SubT(T, a, b) ==
    IF T = FloatType THEN FltSub(a, b)
    ELSE IF T.bits < IntBits THEN Narrow(T, IntSub(a, b)) ELSE IntSub(a, b)

\* the four bytes of an int in two's complement, the lowest first
IntBytes(a) == [k \in 0..3 |-> (a \div (2 ^ (8 * k))) % 256]

\* a * b in int, wrapping round when the product leaves the type (the imul
\* instruction of the unoptimised builds): the low four bytes of the long
\* multiplication of the bytes of a and b
IntMul(a, b) ==
    LET x == IntBytes(a)
        y == IntBytes(b)
        c0 == x[0] * y[0]
        c1 == x[0] * y[1] + x[1] * y[0] + (c0 \div 256)
        c2 == x[0] * y[2] + x[1] * y[1] + x[2] * y[0] + (c1 \div 256)
        c3 == x[0] * y[3] + x[1] * y[2] + x[2] * y[1] + x[3] * y[0] + (c2 \div 256)
        top == c3 % 256
    IN  (IF top >= 128 THEN top - 256 ELSE top) * (2 ^ 24)
            + (c2 % 256) * (2 ^ 16) + (c1 % 256) * 256 + (c0 % 256)

\* lhs *= a on two values of type T
MulT(T, a, b) ==
    IF T = FloatType THEN FltMul(a, b)
    ELSE IF T.bits < IntBits THEN Narrow(T, IntMul(a, b)) ELSE IntMul(a, b)

\* lhs /= a on two values of type T; the integer types divide towards zero
DivT(T, a, b) ==
    IF T = FloatType THEN FltDiv(a, b)
    ELSE LET q == Abs(a) \div Abs(b)
             quotient == IF (a < 0) = (b < 0) THEN q ELSE 0 - q
         IN  IF T.bits < IntBits THEN Narrow(T, quotient) ELSE quotient

\* -a on a value of type T
NegT(T, a) == SubT(T, 0, a)

(***************************************************************************)
(* Vec<N,T> operators and lerp                                             *)
(***************************************************************************)
\* operator+=(Vec& lhs, const Vec& rhs): the value lhs is left with
Vec_add_assign(T, lhs, rhs) == [i \in DOMAIN lhs |-> AddT(T, lhs[i], rhs[i])]

\* operator+(const Vec& lhs, const Vec& rhs): Vec sum(lhs); sum += rhs;
Vec_add(T, lhs, rhs) == Vec_add_assign(T, lhs, rhs)

\* operator-=(Vec& lhs, const Vec& rhs): the value lhs is left with
Vec_sub_assign(T, lhs, rhs) == [i \in DOMAIN lhs |-> SubT(T, lhs[i], rhs[i])]

\* a binary minus that adds
Vec_sub_adds(T, lhs, rhs) == Vec_add_assign(T, lhs, rhs)

\* operator-(const Vec& lhs, const Vec& rhs): Vec diff(lhs); diff -= rhs;
Vec_sub(T, lhs, rhs) == Vec_sub_assign(T, lhs, rhs)

\* operator*=(Vec& lhs, T a): the value lhs is left with
Vec_mul_assign(T, lhs, a) == [i \in DOMAIN lhs |-> MulT(T, lhs[i], a)]

\* operator*(const Vec& lhs, T a): Vec w(lhs); w *= a;
Vec_mul(T, lhs, a) == Vec_mul_assign(T, lhs, a)

\* a lerp with its two weights exchanged
lerp_weights_exchanged(T, value0, value1, f) ==
    AddT(T, MulT(T, f, value0), MulT(T, SubT(T, 1, f), value1))

\* lerp(const S& value0, const S& value1, T f) with S = T:
\*   (1 - f) * value0 + f * value1
lerp(T, value0, value1, f) ==
    AddT(T, MulT(T, SubT(T, 1, f), value0), MulT(T, f, value1))

\* lerp(const Vec<N,T>& value0, const Vec<N,T>& value1, T f):
\*   value0 * (1 - f) + value1 * f
Vec_lerp(T, value0, value1, f) ==
    Vec_add(T, Vec_mul(T, value0, SubT(T, 1, f)), Vec_mul(T, value1, f))

\* The component values tried for a type: its two extremes and -1, 0, 1.
Samples(T) == {MinOf(T), MaxOf(T)} \cup {x \in {0 - 1, 0, 1} : MinOf(T) <= x}

\* The arguments of a lerp over int: any sampled end values with f = 0 or 1,
\* and the small numbers with every small f (no product leaves int).
LerpArgs(N) ==
    ([0..(N - 1) -> Samples(IntType)] \X [0..(N - 1) -> Samples(IntType)] \X {0, 1})
        \cup ([0..(N - 1) -> Num] \X [0..(N - 1) -> Num] \X Num)

InitVec ==
    /\ pc = "start"
    /\ call = [op |-> None]
    /\ ret = None
    /\ v = None
    /\ amin = 0
    /\ amax = 0
    /\ n = {}
    /\ exponent = 0

\* Vec<N,T> r = a + b
VecAdd ==
    /\ pc = "start"
    /\ \E T \in IntegerTypes, N \in 1..MaxDim :
       \E a \in [0..(N - 1) -> Samples(T)], b \in [0..(N - 1) -> Samples(T)] :
          /\ call' = [op |-> "operator+", T |-> T, a |-> a, b |-> b]
          /\ ret' = Vec_add(T, a, b)
    /\ pc' = "added"
    /\ UNCHANGED <<v, amin, amax, n, exponent>>

\* Vec<N,T> r = (a + b) - b: the binary minus applied to the sum and b
VecSub ==
    /\ pc = "added"
    /\ call' = [call EXCEPT !.op = "operator-"] @@ [sum |-> ret]
    /\ ret' = Vec_sub(call.T, ret, call.b)
    /\ pc' = "subtracted"
    /\ UNCHANGED <<v, amin, amax, n, exponent>>

\* int r = lerp(value0, value1, f)
ScalarLerp ==
    /\ pc = "start"
    /\ \E a \in LerpArgs(1) :
          /\ call' = [op |-> "lerp", value0 |-> a[1][0], value1 |-> a[2][0], f |-> a[3]]
          /\ ret' = lerp(IntType, a[1][0], a[2][0], a[3])
    /\ pc' = "lerped"
    /\ UNCHANGED <<v, amin, amax, n, exponent>>

\* Vec<N,int> r = lerp(value0, value1, f)
VecLerp ==
    /\ pc = "start"
    /\ \E N \in 1..MaxDim : \E a \in LerpArgs(N) :
          /\ call' = [op |-> "lerp(Vec)", value0 |-> a[1], value1 |-> a[2], f |-> a[3]]
          /\ ret' = Vec_lerp(IntType, a[1], a[2], a[3])
    /\ pc' = "lerped"
    /\ UNCHANGED <<v, amin, amax, n, exponent>>

\* operator-(const Vec& rhs), the unary minus: negative.v[i] = -rhs.v[i]
Vec_neg(T, rhs) == [i \in DOMAIN rhs |-> NegT(T, rhs[i])]

\* equals(lhs, rhs): false at the first i with lhs[i] != rhs[i], true after the loop
RECURSIVE equals_loop(_, _, _)
equals_loop(lhs, rhs, i) ==
    IF i >= Dim(lhs) THEN TRUE
    ELSE IF lhs[i] # rhs[i] THEN FALSE
    ELSE equals_loop(lhs, rhs, i + 1)

equals(lhs, rhs) == equals_loop(lhs, rhs, 0)

\* operator==(Vec& lhs, const Vec& rhs) and operator!=(Vec& lhs, const Vec& rhs)
Vec_eq_equals(lhs, rhs) == equals(lhs, rhs)
Vec_ne_equals(lhs, rhs) == ~equals(lhs, rhs)

\* operator==(const Vec& a, const Vec& b):
\*   t = (a.v[0] == b.v[0]); i = 1;
\*   while (i < N && t) { t = t && (a.v[i] == b.v[i]); ++i; }
RECURSIVE Vec_eq_loop(_, _, _, _)
Vec_eq_loop(a, b, t, i) ==
    IF i < Dim(a) /\ t
    THEN Vec_eq_loop(a, b, t /\ (a[i] = b[i]), i + 1)
    ELSE t

Vec_eq(a, b) == Vec_eq_loop(a, b, a[0] = b[0], 1)

\* operator!= (const, const) with the loop condition of operator==, i < N && t
RECURSIVE Vec_ne_loop_while_t(_, _, _, _)
Vec_ne_loop_while_t(a, b, t, i) ==
    IF i < Dim(a) /\ t
    THEN Vec_ne_loop_while_t(a, b, t \/ (a[i] # b[i]), i + 1)
    ELSE t

\* operator!=(const Vec& a, const Vec& b):
\*   t = (a.v[0] != b.v[0]); i = 1;
\*   while (i < N && !t) { t = t || (a.v[i] != b.v[i]); ++i; }
RECURSIVE Vec_ne_loop(_, _, _, _)
Vec_ne_loop(a, b, t, i) ==
    IF i < Dim(a) /\ ~t
    THEN Vec_ne_loop(a, b, t \/ (a[i] # b[i]), i + 1)
    ELSE t

Vec_ne(a, b) == Vec_ne_loop(a, b, a[0] # b[0], 1)

\* sqr(const T& x): x * x, returned as T
sqr(T, x) == MulT(T, x, x)

\* mag2 whose first term is a.v[0] itself
RECURSIVE mag2_loop(_, _, _, _)
mag2_first_unsquared(T, a) == mag2_loop(T, a, a[0], 1)

\* mag2(const Vec& a): T l = sqr(a.v[0]); for (i = 1; i < N; ++i) l += sqr(a.v[i]);
mag2_loop(T, a, l, i) ==
    IF i >= Dim(a) THEN l
    ELSE mag2_loop(T, a, AddT(T, l, sqr(T, a[i])), i + 1)

mag2(T, a) == mag2_loop(T, a, sqr(T, a[0]), 1)

\* the loop of dot with b.v[0] in place of b.v[i]
RECURSIVE dot_loop_b0(_, _, _, _, _)
dot_loop_b0(T, a, b, d, i) ==
    IF i >= Dim(a) THEN d
    ELSE dot_loop_b0(T, a, b, AddT(T, d, IntMul(a[i], b[0])), i + 1)

\* dot(const Vec& a, const Vec& b):
\*   T d = a.v[0] * b.v[0]; for (i = 1; i < N; ++i) d += a.v[i] * b.v[i];
\* each product is formed in int (T promoted) and the sum converted back to T
RECURSIVE dot_loop(_, _, _, _, _)
dot_loop(T, a, b, d, i) ==
    IF i >= Dim(a) THEN d
    ELSE dot_loop(T, a, b, AddT(T, d, IntMul(a[i], b[i])), i + 1)

dot(T, a, b) == dot_loop(T, a, b, MulT(T, a[0], b[0]), 1)

\* a cross product whose first component adds its two products
cross_first_added(T, a, b) ==
    Vec3(AddT(T, IntMul(a[1], b[2]), IntMul(a[2], b[1])),
         SubT(T, IntMul(a[2], b[0]), IntMul(a[0], b[2])),
         SubT(T, IntMul(a[0], b[1]), IntMul(a[1], b[0])))

\* cross(const Vec<3,T>& a, const Vec<3,T>& b): Vec<3,T>(a.v[1] * b.v[2] -
\* a.v[2] * b.v[1], a.v[2] * b.v[0] - a.v[0] * b.v[2], a.v[0] * b.v[1] -
\* a.v[1] * b.v[0]), each argument computed in int and converted to T
cross(T, a, b) ==
    Vec3(SubT(T, IntMul(a[1], b[2]), IntMul(a[2], b[1])),
         SubT(T, IntMul(a[2], b[0]), IntMul(a[0], b[2])),
         SubT(T, IntMul(a[0], b[1]), IntMul(a[1], b[0])))

\* the vectors Vec<N,T> whose components are among the sampled values of T
SampleVecs(T, N) == [0..(N - 1) -> Samples(T)]

\* a == b and a != b, through the overloads taking a non-const left operand
\* (equals) or through those taking two const operands (the loops)
VecCompare ==
    /\ pc = "start"
    /\ \E T \in IntegerTypes, N \in 1..MaxDim :
       \E a \in SampleVecs(T, N), b \in SampleVecs(T, N) :
       \E overload \in {"equals", "loop"} :
          /\ call' = [op |-> "operator==", overload |-> overload, a |-> a, b |-> b]
          /\ ret' = IF overload = "equals"
                    THEN [eq |-> Vec_eq_equals(a, b), ne |-> Vec_ne_equals(a, b)]
                    ELSE [eq |-> Vec_eq(a, b), ne |-> Vec_ne(a, b)]
    /\ pc' = "compared"
    /\ UNCHANGED <<v, amin, amax, n, exponent>>

\* T p = dot(a, b); T q = dot(b, a);
VecDot ==
    /\ pc = "start"
    /\ \E T \in IntegerTypes, N \in 1..MaxDim :
       \E a \in SampleVecs(T, N), b \in SampleVecs(T, N) :
          /\ call' = [op |-> "dot", T |-> T, a |-> a, b |-> b]
          /\ ret' = [ab |-> dot(T, a, b), ba |-> dot(T, b, a)]
    /\ pc' = "dot"
    /\ UNCHANGED <<v, amin, amax, n, exponent>>

\* Vec<3,T> p = cross(a, b); Vec<3,T> q = -cross(b, a);
VecCross ==
    /\ pc = "start"
    /\ \E T \in IntegerTypes :
       \E a \in SampleVecs(T, 3), b \in SampleVecs(T, 3) :
          /\ call' = [op |-> "cross", T |-> T, a |-> a, b |-> b]
          /\ ret' = [ab |-> cross(T, a, b), neg_ba |-> Vec_neg(T, cross(T, b, a))]
    /\ pc' = "cross"
    /\ UNCHANGED <<v, amin, amax, n, exponent>>

\* T p = mag2(a); T q = dot(a, a);
VecMag2 ==
    /\ pc = "start"
    /\ \E T \in IntegerTypes, N \in 1..MaxDim :
       \E a \in SampleVecs(T, N) :
          /\ call' = [op |-> "mag2", T |-> T, a |-> a]
          /\ ret' = [mag2 |-> mag2(T, a), dot |-> dot(T, a, a)]
    /\ pc' = "mag2"
    /\ UNCHANGED <<v, amin, amax, n, exponent>>

\* a triple product whose last term is subtracted
triple_last_subtracted(T, a, b, c) ==
    AddT(T, IntSub(IntMul(a[0], IntSub(IntMul(b[1], c[2]), IntMul(b[2], c[1]))),
                   IntMul(a[2], IntSub(IntMul(b[0], c[1]), IntMul(b[1], c[0])))),
         IntMul(a[1], IntSub(IntMul(b[2], c[0]), IntMul(b[0], c[2]))))

\* triple(const Vec<3,T>& a, const Vec<3,T>& b, const Vec<3,T>& c):
\*   a.v[0] * (b.v[1] * c.v[2] - b.v[2] * c.v[1])
\*     + a.v[1] * (b.v[2] * c.v[0] - b.v[0] * c.v[2])
\*     + a.v[2] * (b.v[0] * c.v[1] - b.v[1] * c.v[0]),
\* the whole expression computed in int and the result converted to T
triple(T, a, b, c) ==
    AddT(T, IntAdd(IntMul(a[0], IntSub(IntMul(b[1], c[2]), IntMul(b[2], c[1]))),
                   IntMul(a[1], IntSub(IntMul(b[2], c[0]), IntMul(b[0], c[2])))),
         IntMul(a[2], IntSub(IntMul(b[0], c[1]), IntMul(b[1], c[0]))))

\* (T)-1
MinusOne(T) == IF T.signed THEN 0 - 1 ELSE MaxOf(T)

\* The 3-vectors tried for a triple product: the axes and vectors with the
\* extremes of T among their components.
TripleVecs(T) ==
    { Vec3(1, 0, 0), Vec3(0, 1, 0), Vec3(0, 0, MinusOne(T)), Vec3(1, 1, 1),
      Vec3(MaxOf(T), MinOf(T), 1), Vec3(MinusOne(T), MaxOf(T), 0),
      Vec3(MinOf(T), MaxOf(T), MaxOf(T)), Vec3(1, MinusOne(T), MaxOf(T)) }

\* T p = triple(a, b, c); T q = dot(a, cross(b, c)); T r = triple(a, a, c);
\* T s = dot(a, cross(a, b));
VecTriple ==
    /\ pc = "start"
    /\ \E T \in IntegerTypes :
       \E a \in TripleVecs(T), b \in TripleVecs(T), c \in TripleVecs(T) :
          /\ call' = [op |-> "triple", T |-> T, a |-> a, b |-> b, c |-> c]
          /\ ret' = [abc |-> triple(T, a, b, c),
                     dot_cross |-> dot(T, a, cross(T, b, c)),
                     aac |-> triple(T, a, a, c),
                     dot_cross_aab |-> dot(T, a, cross(T, a, b))]
    /\ pc' = "triple"
    /\ UNCHANGED <<v, amin, amax, n, exponent>>

NextVec ==
    \/ VecAdd \/ VecSub \/ ScalarLerp \/ VecLerp
    \/ VecCompare \/ VecDot \/ VecCross \/ VecMag2 \/ VecTriple

SpecVec == InitVec /\ [][NextVec]_vars

\* C9: for all vectors a, b of the same dimension with an integer component
\* type, (a + b) - b equals a in every component.
C9_AddThenSubtract ==
    pc = "subtracted" => \A i \in DOMAIN call.a : ret[i] = call.a[i]

\* C9 witness: on Vec<2,int>, a = (INT_MAX, INT_MIN) and b = (1, -1): the sum
\* wraps to (INT_MIN, INT_MAX) and the difference is a again.
C9_Witness ==
    /\ pc = "subtracted"
    /\ call.T = IntType
    /\ call.a = Vec2(MaxOf(IntType), MinOf(IntType))
    /\ call.b = Vec2(1, 0 - 1)
    /\ call.sum = Vec2(MinOf(IntType), MaxOf(IntType))
    /\ ret = call.a

\* C10: lerp(a, b, 0) = a and lerp(a, b, 1) = b for all a, b, for the scalar
\* lerp and for the componentwise vector lerp.
C10_LerpEndpoints ==
    pc = "lerped" =>
        /\ call.f = 0 => ret = call.value0
        /\ call.f = 1 => ret = call.value1

\* C10 witness: the vector lerp of (INT_MIN, 1) and (INT_MAX, -1) at f = 1 has
\* returned the second vector.
C10_Witness ==
    /\ pc = "lerped"
    /\ call.op = "lerp(Vec)"
    /\ call.value0 = Vec2(MinOf(IntType), 1)
    /\ call.value1 = Vec2(MaxOf(IntType), 0 - 1)
    /\ call.f = 1
    /\ ret = call.value1

\* C15: operator== is true exactly when all N components are pairwise equal,
\* and operator!= is the negation of operator== on the same operands, for the
\* overloads built on equals and for the overloads with their own loops.
C15_EqualityAllComponents ==
    pc = "compared" =>
        /\ ret.eq <=> (\A i \in DOMAIN call.a : call.a[i] = call.b[i])
        /\ ret.ne <=> ~ret.eq

\* C15 witness: the loop overloads on (1, 0) and (1, -1), which differ in the
\* last component only.
C15_Witness ==
    /\ pc = "compared"
    /\ call.overload = "loop"
    /\ call.a = Vec2(1, 0)
    /\ call.b = Vec2(1, 0 - 1)
    /\ ret = [eq |-> FALSE, ne |-> TRUE]

\* C18: dot(a, b) = dot(b, a) for all vectors a, b of equal dimension with
\* integer components.
C18_DotCommutes ==
    pc = "dot" => ret.ab = ret.ba

\* C18 witness: on Vec<2,int>, a = (INT_MAX, 1) and b = (INT_MAX, -1): the first
\* product wraps to 1 and both dot products are 0.
C18_Witness ==
    /\ pc = "dot"
    /\ call.T = IntType
    /\ call.a = Vec2(MaxOf(IntType), 1)
    /\ call.b = Vec2(MaxOf(IntType), 0 - 1)
    /\ ret = [ab |-> 0, ba |-> 0]

\* C19: cross(a, b) = -cross(b, a) in every component for all 3-vectors a, b
\* with integer components.
C19_CrossAnticommutes ==
    pc = "cross" => \A i \in 0..2 : ret.ab[i] = ret.neg_ba[i]

\* C19 witness: on Vec<3,int>, a = (1, 0, 0) and b = (0, 1, 0) give (0, 0, 1).
C19_Witness ==
    /\ pc = "cross"
    /\ call.T = IntType
    /\ call.a = Vec3(1, 0, 0)
    /\ call.b = Vec3(0, 1, 0)
    /\ ret.ab = Vec3(0, 0, 1)
    /\ ret.neg_ba = Vec3(0, 0, 1)

\* C20: mag2(a) = dot(a, a) for every vector a of every dimension N >= 1 with
\* integer components.
C20_Mag2IsDot ==
    pc = "mag2" => ret.mag2 = ret.dot

\* C20 witness: on Vec<2,short>, a = (SHRT_MIN, -1): the square of SHRT_MIN
\* converts to 0 and both results are 1.
C20_Witness ==
    /\ pc = "mag2"
    /\ call.T.name = "short"
    /\ call.a = Vec2(MinOf(call.T), 0 - 1)
    /\ ret = [mag2 |-> 1, dot |-> 1]

(***************************************************************************)
(* Component access: the named members of the unions and operator[]        *)
(***************************************************************************)
\* the dimensions the accesses are tried on without a specialisation: they
\* instantiate the generic template
GenericDims == {1, 5}

\* the anonymous structs of the union with the members x, y, z and the colours
\* declared in BGR order
Vec_members_bgr(N) ==
    CASE N = 2 -> {<<"x", "y">>}
      [] N = 3 -> {<<"x", "y", "z">>, <<"b", "g", "r">>}
      [] N = 4 -> {<<"x", "y", "z", "w">>, <<"b", "g", "r", "a">>}
      [] OTHER -> {}

\* The anonymous structs of the union of Vec<N,T>, each the list of its members
\* in declaration order: struct { T x, y; }, struct { T x, y, z; },
\* struct { T r, g, b; }, ...  The generic template has the array only.
Vec_members(N) ==
    CASE N = 2 -> {<<"x", "y">>}
      [] N = 3 -> {<<"x", "y", "z">>, <<"r", "g", "b">>}
      [] N = 4 -> {<<"x", "y", "z", "w">>, <<"r", "g", "b", "a">>}
      [] OTHER -> {}

MemberNames(N) == UNION {{s[k] : k \in DOMAIN s} : s \in Vec_members(N)}

\* The place of a named member in the storage, in units of T.  Every member of
\* the union starts at offset 0, and the members of a struct, all of type T,
\* follow one another in declaration order: the k-th overlays v[k-1].
offsetof(N, name) ==
    CHOOSE at \in 0..(N - 1) : \E s \in Vec_members(N) : s[at + 1] = name

\* T& operator[](size_t index), in a build with assertions enabled.  The generic
\* template asserts index < N (0 <= index holds of every size_t); the
\* specialisations return v[index] unchecked, and an index >= N makes that a
\* reference past the array.
Vec_index(N, index) ==
    IF N \in SwizzleDims
    THEN IF index < N THEN "reference" ELSE "out_of_range"
    ELSE IF index < N THEN "reference" ELSE "assert_failed"

\* the indices passed to operator[]: the components and two indices past them
Indices(N) == 0..(N + 1)

\* the value an access outside the array can read: whatever lies there
Garbage == 0..MaxWrites

InitAccess ==
    /\ pc = "start"
    /\ call = [op |-> None, via |-> None, at |-> 0, log |-> <<>>]
    /\ ret = None
    /\ v \in {Vec_value_for_all(N, 0) : N \in SwizzleDims \cup GenericDims}
    /\ amin = 0
    /\ amax = 0
    /\ n = {}
    /\ exponent = 0

\* v.<name> = k, the k-th write of the program storing the value k
WriteMember ==
    /\ pc \in {"start", "written"}
    /\ Len(call.log) < MaxWrites
    /\ \E name \in MemberNames(Dim(v)) :
          LET at == offsetof(Dim(v), name)
              value == Len(call.log) + 1
          IN  /\ v' = [v EXCEPT ![at] = value]
              /\ call' = [op |-> "write", via |-> name, at |-> at,
                          log |-> Append(call.log, [via |-> name, at |-> at,
                                                    value |-> value])]
    /\ pc' = "written"
    /\ UNCHANGED <<ret, amin, amax, n, exponent>>

\* v[index] = k.  A failed assert aborts the program; a write through a
\* reference past the array lands outside the vector, and the run is followed
\* no further.
WriteIndex ==
    /\ pc \in {"start", "written"}
    /\ Len(call.log) < MaxWrites
    /\ \E index \in Indices(Dim(v)) :
          LET value == Len(call.log) + 1
              entry == [via |-> "operator[]", at |-> index, value |-> value]
          IN  /\ call' = [op |-> "write", via |-> "operator[]", at |-> index,
                          log |-> Append(call.log, entry)]
              /\ CASE Vec_index(Dim(v), index) = "reference" ->
                          v' = [v EXCEPT ![index] = value] /\ pc' = "written"
                   [] Vec_index(Dim(v), index) = "assert_failed" ->
                          v' = v /\ pc' = "assert_failed"
                   [] OTHER -> v' = v /\ pc' = "out_of_range"
    /\ UNCHANGED <<ret, amin, amax, n, exponent>>

\* T t = v.<name>
ReadMember ==
    /\ pc \in {"start", "written"}
    /\ \E name \in MemberNames(Dim(v)) :
          LET at == offsetof(Dim(v), name)
          IN  /\ ret' = v[at]
              /\ call' = [call EXCEPT !.op = "read", !.via = name, !.at = at]
    /\ pc' = "read"
    /\ UNCHANGED <<v, amin, amax, n, exponent>>

\* T t = v[index]
ReadIndex ==
    /\ pc \in {"start", "written"}
    /\ \E index \in Indices(Dim(v)) :
          /\ call' = [call EXCEPT !.op = "read", !.via = "operator[]", !.at = index]
          /\ CASE Vec_index(Dim(v), index) = "reference" ->
                      ret' = v[index] /\ pc' = "read"
               [] Vec_index(Dim(v), index) = "assert_failed" ->
                      ret' = ret /\ pc' = "assert_failed"
               [] OTHER -> ret' \in Garbage /\ pc' = "out_of_range"
    /\ UNCHANGED <<v, amin, amax, n, exponent>>

NextAccess == WriteMember \/ WriteIndex \/ ReadMember \/ ReadIndex

SpecAccess == InitAccess /\ [][NextAccess]_vars

\* the aliases of the components 0, 1, 2, 3 as C11 names them
ComponentAliases == <<{"x", "r"}, {"y", "g"}, {"z", "b"}, {"w", "a"}>>

\* the component an access is to: v[i] is component i, a name the component
\* whose aliases it is among
ComponentOf(via, at) ==
    IF via = "operator[]"
    THEN at
    ELSE (CHOOSE k \in DOMAIN ComponentAliases : via \in ComponentAliases[k]) - 1

\* the value last written to component k by the writes of log; 0, the value the
\* vector was constructed with, when none wrote to it
LastWritten(k, log) ==
    LET hits == {j \in DOMAIN log : ComponentOf(log[j].via, log[j].at) = k}
    IN  IF hits = {} THEN 0
        ELSE log[CHOOSE j \in hits : \A i \in hits : i <= j].value

\* C11: after any sequence of writes through the named members and operator[],
\* a read through any alias of a component returns the value last written to
\* that component through any of its aliases (x, r, v[0]; y, g, v[1]; ...).
C11_AliasesShareStorage ==
    pc = "read" => ret = LastWritten(ComponentOf(call.via, call.at), call.log)

\* C11 witness: on a 3-vector, v.x is written, then v.r, then v.b, and v[0]
\* reads the value written through r.
C11_Witness ==
    /\ pc = "read"
    /\ Dim(v) = 3
    /\ Len(call.log) = 3
    /\ call.log[1].via = "x"
    /\ call.log[2].via = "r"
    /\ call.log[3].via = "b"
    /\ call.via = "operator[]"
    /\ call.at = 0
    /\ ret = 2

\* C13: in a build with assertions, operator[] with an index >= N ends in an
\* assertion failure, for the generic template and for the specialisations.
\* The specialisations for N = 2, 3, 4 have no assert: v[index] is evaluated.
C13_OutOfRangeAsserts ==
    (call.via = "operator[]" /\ call.at >= Dim(v)) => pc = "assert_failed"

(***************************************************************************)
(* Swizzle assignments of any arity: what the static_asserts let through   *)
(***************************************************************************)
\* static_assert(sizeof...(SW) == sizeof...(SW2), ...) of
\* Swizzle::operator=(const Swizzle<T2, SW2...>&)
Swizzle_static_assert_swizzle(i1, i2) == Len(i1) = Len(i2)

\* static_assert(sizeof...(SW) == N, ...) of Swizzle::operator=(const Vec<N, T2>&)
Swizzle_static_assert_vec(i1, N) == Len(i1) = N

\* Vec<K,T>::operator=(const Swizzle<T2, SW...>& lhs) and the constructor from a
\* swizzle, on a vector dst of any dimension K.  Neither has a static_assert:
\*   for (i = 0; i < ii.size(); ++i) v[i] = lhs.v[ii[i]];
\* These are the components of dst after the loop; an arity below K leaves the
\* last components as they were, and the writes to v[i], i >= K, fall outside.
Vec_assign_swizzle(dst, src, ii) ==
    [i \in DOMAIN dst |-> IF i < Len(ii) THEN src[ii[i + 1]] ELSE dst[i]]

\* the indices i of the writes v[i] = ... of that loop
Vec_assign_swizzle_written(ii) == 0..(Len(ii) - 1)

\* the indices i1[x] of the writes v[i1[x]] = ... of the loops of Swizzle::operator=
Swizzle_assign_written(i1) == {i1[x] : x \in DOMAIN i1}

InitArity ==
    /\ pc = "start"
    /\ call = [op |-> None]
    /\ ret = None
    /\ v \in {Vec2(1, 2), Vec3(1, 2, 3), Vec4(1, 2, 3, 4)}
    /\ amin = 0
    /\ amax = 0
    /\ n = {}
    /\ exponent = 0

\* v.<i1> = v.<i2> for swizzles of any two arities: the translation unit is
\* rejected when the static_assert fails, and the loop runs otherwise.
CompileSwizzleAssignSwizzle ==
    /\ pc = "start"
    /\ \E i1 \in SwizzleLists(Dim(v)) :
       \E i2 \in SwizzleLists(Dim(v)) :
          LET accepted == Swizzle_static_assert_swizzle(i1, i2)
          IN  /\ v' = IF accepted THEN Swizzle_assign_swizzle(v, v, TRUE, i1, i2) ELSE v
              /\ pc' = IF accepted THEN "assigned" ELSE "rejected"
              /\ call' = [op |-> "swizzle=swizzle", i1 |-> i1, i2 |-> i2,
                          dst_arity |-> Len(i1), src_arity |-> Len(i2),
                          dst_dim |-> Dim(v),
                          written |-> IF accepted THEN Swizzle_assign_written(i1)
                                      ELSE {}]
    /\ UNCHANGED <<ret, amin, amax, n, exponent>>

\* v.<i1> = u for a vector u of any dimension 2..4.  When accepted the operator
\* runs its loop and then flows off its end (no return statement).
CompileSwizzleAssignVec ==
    /\ pc = "start"
    /\ \E i1 \in SwizzleLists(Dim(v)) :
       \E N \in SwizzleDims :
       \E u \in InitialVecs(N) :
          LET accepted == Swizzle_static_assert_vec(i1, N)
          IN  /\ v' = IF accepted THEN Swizzle_assign_vec(v, u, i1) ELSE v
              /\ pc' \in IF accepted THEN {"assigned", "trapped"} ELSE {"rejected"}
              /\ call' = [op |-> "swizzle=vec", i1 |-> i1, u |-> u,
                          dst_arity |-> Len(i1), src_arity |-> N,
                          dst_dim |-> Dim(v),
                          written |-> IF accepted THEN Swizzle_assign_written(i1)
                                      ELSE {}]
    /\ UNCHANGED <<ret, amin, amax, n, exponent>>

\* Vec<K,T> a(0); a = v.<ii> for a swizzle of any arity: always accepted.  With
\* an arity above K the loop writes past a.v, after which the run is followed
\* no further.
CompileVecAssignSwizzle ==
    /\ pc = "start"
    /\ \E K \in SwizzleDims :
       \E ii \in SwizzleLists(Dim(v)) :
          /\ ret' = Vec_assign_swizzle(Vec_value_for_all(K, 0), v, ii)
          /\ pc' = IF Len(ii) > K THEN "overrun" ELSE "assigned"
          /\ call' = [op |-> "vec=swizzle", ii |-> ii,
                      dst_arity |-> K, src_arity |-> Len(ii), dst_dim |-> K,
                      written |-> Vec_assign_swizzle_written(ii)]
    /\ UNCHANGED <<v, amin, amax, n, exponent>>

NextArity ==
    \/ CompileSwizzleAssignSwizzle
    \/ CompileSwizzleAssignVec
    \/ CompileVecAssignSwizzle

SpecArity == InitArity /\ [][NextArity]_vars

\* C12: a swizzle assignment whose source and destination arities differ is
\* rejected at compile time and writes no component, be it swizzle to swizzle,
\* vector to swizzle or swizzle to vector; so no swizzle assignment writes a
\* component index >= the destination's dimension.
\* The assignment of a swizzle to a vector has no static_assert.
C12_ArityMismatchRejected ==
    pc # "start" =>
        /\ call.dst_arity # call.src_arity => (pc = "rejected" /\ call.written = {})
        /\ \A i \in call.written : i < call.dst_dim

(***************************************************************************)
(* Functions of real arguments: get_barycentric, the steps, the lerps      *)
(***************************************************************************)
\* the arguments of type T: the multiples of 1/GridDen from -MaxReal to MaxReal
Grid == {Rat(k, GridDen) : k \in (0 - MaxReal * GridDen)..(MaxReal * GridDen)}

\* the arguments int i_low, int i_high
CellBounds == (0 - MaxReal)..(MaxReal + 1)

\* get_barycentric with the second test comparing against i_high - 1
get_barycentric_off_by_one(x, i_low, i_high) ==
    LET s == RatFloor(x)
    IN  IF s < i_low THEN [i |-> i_low, f |-> RatOf(0)]
        ELSE IF s > i_high - 1 THEN [i |-> i_high - 1, f |-> RatOf(1)]
        ELSE [i |-> s, f |-> RatSub(x, RatOf(s))]

\* get_barycentric(T x, int& i, T& f, int i_low, int i_high): the values left in
\* the out-parameters i and f
get_barycentric(x, i_low, i_high) ==
    LET s == RatFloor(x)
    IN  IF s < i_low THEN [i |-> i_low, f |-> RatOf(0)]
        ELSE IF s > i_high - 2 THEN [i |-> i_high - 2, f |-> RatOf(1)]
        ELSE [i |-> s, f |-> RatSub(x, RatOf(s))]

InitReal ==
    /\ pc = "start"
    /\ call = [op |-> None]
    /\ ret = None
    /\ v = None
    /\ amin = 0
    /\ amax = 0
    /\ n = {}
    /\ exponent = 0

CallGetBarycentric ==
    /\ pc = "start"
    /\ \E x \in Grid :
       \E i_low \in CellBounds :
       \E i_high \in CellBounds :
          /\ call' = [op |-> "get_barycentric", x |-> x,
                      i_low |-> i_low, i_high |-> i_high]
          /\ ret' = get_barycentric(x, i_low, i_high)
    /\ pc' = "get_barycentric"
    /\ UNCHANGED <<v, amin, amax, n, exponent>>


\* smooth_step with the bracket of the inner product dropped:
\*   r * r * r * (10 + r * -15 + r * 6)
smooth_step_unbracketed(r) ==
    IF RatLess(r, RatOf(0)) THEN RatOf(0)
    ELSE IF RatLess(RatOf(1), r) THEN RatOf(1)
    ELSE RatMul(RatMul(RatMul(r, r), r),
                RatAdd(RatAdd(RatOf(10), RatMul(r, RatOf(0 - 15))),
                       RatMul(r, RatOf(6))))

\* smooth_step(T r):
\*   if (r < 0) return 0; else if (r > 1) return 1;
\*   return r * r * r * (10 + r * (-15 + r * 6));
smooth_step(r) ==
    IF RatLess(r, RatOf(0)) THEN RatOf(0)
    ELSE IF RatLess(RatOf(1), r) THEN RatOf(1)
    ELSE RatMul(RatMul(RatMul(r, r), r),
                RatAdd(RatOf(10),
                       RatMul(r, RatAdd(RatOf(0 - 15), RatMul(r, RatOf(6))))))

\* linear_step without the test against r
linear_step_unbounded(l, r, val) ==
    IF RatLeq(val, l) THEN RatOf(0)
    ELSE RatDiv(RatSub(val, l), RatSub(r, l))

\* linear_step(T l, T r, T v):
\*   if (v <= l) return 0.0; if (v >= r) return 1.0; return (v - l) / (r - l);
linear_step(l, r, val) ==
    IF RatLeq(val, l) THEN RatOf(0)
    ELSE IF RatLeq(r, val) THEN RatOf(1)
    ELSE RatDiv(RatSub(val, l), RatSub(r, l))

\* smooth_step(r1) and smooth_step(r2), two calls of a program
CallSmoothStep ==
    /\ pc = "start"
    /\ \E r1 \in Grid :
       \E r2 \in Grid :
          /\ call' = [op |-> "smooth_step", r1 |-> r1, r2 |-> r2]
          /\ ret' = <<smooth_step(r1), smooth_step(r2)>>
    /\ pc' = "smooth_step"
    /\ UNCHANGED <<v, amin, amax, n, exponent>>

\* linear_step(l, r, v); the division is reached with l < v < r only
CallLinearStep ==
    /\ pc = "start"
    /\ \E l \in Grid :
       \E r \in Grid :
       \E val \in Grid :
          /\ call' = [op |-> "linear_step", l |-> l, r |-> r, v |-> val]
          /\ ret' = linear_step(l, r, val)
    /\ pc' = "linear_step"
    /\ UNCHANGED <<v, amin, amax, n, exponent>>

\* lerp(const S& value0, const S& value1, T f) with S = T = float or double:
\*   (1 - f) * value0 + f * value1
lerp_real(value0, value1, f) ==
    RatAdd(RatMul(RatSub(RatOf(1), f), value0), RatMul(f, value1))

\* bilerp with v10 and v01 exchanged in the two inner calls
bilerp_v10_v01_exchanged(v00, v10, v01, v11, fx, fy) ==
    lerp_real(lerp_real(v00, v01, fx), lerp_real(v10, v11, fx), fy)

\* bilerp(v00, v10, v01, v11, fx, fy):
\*   lerp(lerp(v00, v10, fx), lerp(v01, v11, fx), fy)
bilerp(v00, v10, v01, v11, fx, fy) ==
    lerp_real(lerp_real(v00, v10, fx), lerp_real(v01, v11, fx), fy)

\* trilerp(v000, v100, v010, v110, v001, v101, v011, v111, fx, fy, fz):
\*   lerp(bilerp(v000, v100, v010, v110, fx, fy),
\*        bilerp(v001, v101, v011, v111, fx, fy), fz)
trilerp(v000, v100, v010, v110, v001, v101, v011, v111, fx, fy, fz) ==
    lerp_real(bilerp(v000, v100, v010, v110, fx, fy),
              bilerp(v001, v101, v011, v111, fx, fy), fz)

\* quadlerp(v0000, ..., v1111, fx, fy, fz, ft):
\*   lerp(trilerp(v0000, v1000, v0100, v1100, v0010, v1010, v0110, v1110, fx, fy, fz),
\*        trilerp(v0001, v1001, v0101, v1101, v0011, v1011, v0111, v1111, fx, fy, fz), ft)
quadlerp(v0000, v1000, v0100, v1100, v0010, v1010, v0110, v1110, v0001, v1001, v0101, v1101, v0011, v1011, v0111, v1111, fx, fy, fz, ft) ==
    lerp_real(trilerp(v0000, v1000, v0100, v1100, v0010, v1010, v0110, v1110, fx, fy, fz),
              trilerp(v0001, v1001, v0101, v1101, v0011, v1011, v0111, v1111, fx, fy, fz),
              ft)

\* The corner samples passed to an interpolation over m corners, in argument
\* order (corner c is the argument number c + 1): the samples -1/2, 0, 1/2, 1,
\* ... all different, the squares 0, 1, 4, 9, ..., and the first or the last
\* corner 1 with the others 0.
Samples_of(m) ==
    { [c \in 0..(m - 1) |-> Rat(c - 1, 2)],
      [c \in 0..(m - 1) |-> RatOf(c * c)],
      [c \in 0..(m - 1) |-> RatOf(IF c = 0 THEN 1 ELSE 0)],
      [c \in 0..(m - 1) |-> RatOf(IF c = m - 1 THEN 1 ELSE 0)] }

\* the interpolation parameters fx, fy, fz, ft: the multiples of 1/GridDen in [0, 1]
UnitGrid == {Rat(k, GridDen) : k \in 0..GridDen}

\* the call of bilerp, trilerp or quadlerp on the samples s with the parameters f
multilerp(s, f) ==
    CASE Len(f) = 2 -> bilerp(s[0], s[1], s[2], s[3], f[1], f[2])
      [] Len(f) = 3 -> trilerp(s[0], s[1], s[2], s[3], s[4], s[5], s[6], s[7],
                               f[1], f[2], f[3])
      [] OTHER -> quadlerp(s[0], s[1], s[2], s[3], s[4], s[5], s[6], s[7],
                           s[8], s[9], s[10], s[11], s[12], s[13], s[14], s[15],
                           f[1], f[2], f[3], f[4])

CallBilerp ==
    /\ pc = "start"
    /\ \E s \in Samples_of(4) :
       \E f \in [1..2 -> UnitGrid] :
          /\ call' = [op |-> "bilerp", s |-> s, f |-> f]
          /\ ret' = multilerp(s, f)
    /\ pc' = "multilerp"
    /\ UNCHANGED <<v, amin, amax, n, exponent>>

CallTrilerp ==
    /\ pc = "start"
    /\ \E s \in Samples_of(8) :
       \E f \in [1..3 -> UnitGrid] :
          /\ call' = [op |-> "trilerp", s |-> s, f |-> f]
          /\ ret' = multilerp(s, f)
    /\ pc' = "multilerp"
    /\ UNCHANGED <<v, amin, amax, n, exponent>>

CallQuadlerp ==
    /\ pc = "start"
    /\ \E s \in Samples_of(16) :
       \E f \in [1..4 -> UnitGrid] :
          /\ call' = [op |-> "quadlerp", s |-> s, f |-> f]
          /\ ret' = multilerp(s, f)
    /\ pc' = "multilerp"
    /\ UNCHANGED <<v, amin, amax, n, exponent>>

\* The easing functions, T smooth_startK(T t, T b, T c, T d) and
\* T smooth_stopK(T t, T b, T c, T d).  Each operator follows the statements
\* of its function: t1 is t after the first statement.
smooth_start2(t, b, c, d) ==
    LET t1 == RatDiv(t, d)
    IN  RatAdd(RatMul(RatMul(c, t1), t1), b)

smooth_start3(t, b, c, d) ==
    LET t1 == RatDiv(t, d)
    IN  RatAdd(RatMul(RatMul(RatMul(c, t1), t1), t1), b)

smooth_start4(t, b, c, d) ==
    LET t1 == RatDiv(t, d)
    IN  RatAdd(RatMul(RatMul(RatMul(RatMul(c, t1), t1), t1), t1), b)

smooth_start5(t, b, c, d) ==
    LET t1 == RatDiv(t, d)
    IN  RatAdd(RatMul(RatMul(RatMul(RatMul(RatMul(c, t1), t1), t1), t1), t1), b)

\* a smooth_stop2 whose last factor is t - 1
smooth_stop2_minus_one(t, b, c, d) ==
    LET t1 == RatDiv(t, d)
    IN  RatAdd(RatMul(RatMul(RatSub(RatOf(0), c), t1), RatSub(t1, RatOf(1))), b)

\* -c * t * (t - 2) + b
smooth_stop2(t, b, c, d) ==
    LET t1 == RatDiv(t, d)
    IN  RatAdd(RatMul(RatMul(RatSub(RatOf(0), c), t1), RatSub(t1, RatOf(2))), b)

\* t = t / d - 1; c * (t*t*t + (T)1) + b
smooth_stop3(t, b, c, d) ==
    LET t1 == RatSub(RatDiv(t, d), RatOf(1))
    IN  RatAdd(RatMul(c, RatAdd(RatMul(RatMul(t1, t1), t1), RatOf(1))), b)

\* t = t / d - 1; -c * (t*t*t*t - (T)1) + b
smooth_stop4(t, b, c, d) ==
    LET t1 == RatSub(RatDiv(t, d), RatOf(1))
    IN  RatAdd(RatMul(RatSub(RatOf(0), c),
                      RatSub(RatMul(RatMul(RatMul(t1, t1), t1), t1), RatOf(1))),
               b)

\* t = t / d - 1; c * (t*t*t*t*t + (T)1) + b
smooth_stop5(t, b, c, d) ==
    LET t1 == RatSub(RatDiv(t, d), RatOf(1))
    IN  RatAdd(RatMul(c, RatAdd(RatMul(RatMul(RatMul(RatMul(t1, t1), t1), t1), t1),
                                RatOf(1))),
               b)

EasingFunctions ==
    {"smooth_start2", "smooth_start3", "smooth_start4", "smooth_start5",
     "smooth_stop2", "smooth_stop3", "smooth_stop4", "smooth_stop5"}

\* the call of the easing function named f
ease(f, t, b, c, d) ==
    CASE f = "smooth_start2" -> smooth_start2(t, b, c, d)
      [] f = "smooth_start3" -> smooth_start3(t, b, c, d)
      [] f = "smooth_start4" -> smooth_start4(t, b, c, d)
      [] f = "smooth_start5" -> smooth_start5(t, b, c, d)
      [] f = "smooth_stop2" -> smooth_stop2(t, b, c, d)
      [] f = "smooth_stop3" -> smooth_stop3(t, b, c, d)
      [] f = "smooth_stop4" -> smooth_stop4(t, b, c, d)
      [] f = "smooth_stop5" -> smooth_stop5(t, b, c, d)

\* the offsets b and scales c passed: the halves up to MaxReal
EaseValues == {Rat(k, 2) : k \in (0 - 2 * MaxReal)..(2 * MaxReal)}

\* the durations d passed: never 0
Durations == Grid \ {RatOf(0)}

\* the times t passed with the duration d: the start, the middle and the end
Times(d) == {RatOf(0), RatDiv(d, RatOf(2)), d}

\* T r = smooth_startK(t, b, c, d) or smooth_stopK(t, b, c, d)
CallEase ==
    /\ pc = "start"
    /\ \E f \in EasingFunctions :
       \E d \in Durations :
       \E t \in Times(d) :
       \E b \in EaseValues :
       \E c \in EaseValues :
          /\ call' = [op |-> f, t |-> t, b |-> b, c |-> c, d |-> d]
          /\ ret' = ease(f, t, b, c, d)
    /\ pc' = "eased"
    /\ UNCHANGED <<v, amin, amax, n, exponent>>

NextReal ==
    \/ CallGetBarycentric \/ CallSmoothStep \/ CallLinearStep
    \/ CallBilerp \/ CallTrilerp \/ CallQuadlerp \/ CallEase

SpecReal == InitReal /\ [][NextReal]_vars

\* floor(x) as the claims mean it: the integer k with k <= x < k + 1
FloorOf(x) ==
    CHOOSE k \in (0 - MaxReal - 1)..(MaxReal + 1) :
        RatLeq(RatOf(k), x) /\ RatLess(x, RatOf(k + 1))

\* what C14 says of the outputs i and f
BarycentricClaim ==
    /\ call.i_low <= ret.i
    /\ ret.i <= call.i_high - 2
    /\ RatLeq(RatOf(0), ret.f)
    /\ RatLeq(ret.f, RatOf(1))
    /\ (call.i_low <= FloorOf(call.x) /\ FloorOf(call.x) <= call.i_high - 2)
           => (ret.i = FloorOf(call.x)
               /\ ret.f = RatSub(call.x, RatOf(FloorOf(call.x))))

\* C14 as stated: for every x and every i_low, i_high, get_barycentric outputs
\* i_low <= i <= i_high - 2 and 0 <= f <= 1, and i = floor(x), f = x - floor(x)
\* when floor(x) lies in [i_low, i_high - 2].
C14_BarycentricAnyBounds ==
    pc = "get_barycentric" => BarycentricClaim

\* C14, amended: the same for every x and every i_low <= i_high - 2.
C14_BarycentricOrderedBounds ==
    (pc = "get_barycentric" /\ call.i_low <= call.i_high - 2) => BarycentricClaim

\* C14 witness: x = 5/4 with i_low = 0 and i_high = 3 gives i = 1 and f = 1/4.
C14_Witness ==
    /\ pc = "get_barycentric"
    /\ call.x = <<5, 4>>
    /\ call.i_low = 0
    /\ call.i_high = 3
    /\ ret = [i |-> 1, f |-> <<1, 4>>]

\* C16: smooth_step(0) = 0, smooth_step(1) = 1, and for 0 <= r1 <= r2 <= 1,
\* smooth_step(r1) <= smooth_step(r2).
C16_SmoothStepMonotonic ==
    pc = "smooth_step" =>
        /\ call.r1 = RatOf(0) => ret[1] = RatOf(0)
        /\ call.r1 = RatOf(1) => ret[1] = RatOf(1)
        /\ (/\ RatLeq(RatOf(0), call.r1)
            /\ RatLeq(call.r1, call.r2)
            /\ RatLeq(call.r2, RatOf(1))) => RatLeq(ret[1], ret[2])

\* C16 witness: smooth_step(1/2) = 1/2 and smooth_step(3/4) = 459/512.
C16_Witness ==
    /\ pc = "smooth_step"
    /\ call.r1 = <<1, 2>>
    /\ call.r2 = <<3, 4>>
    /\ ret = <<(<<1, 2>>), (<<459, 512>>)>>

\* C17: for l < r, linear_step(l, r, v) is 0 for v <= l, 1 for v >= r and
\* (v - l) / (r - l) in between, so it lies in [0, 1].
C17_LinearStepRamp ==
    (pc = "linear_step" /\ RatLess(call.l, call.r)) =>
        /\ RatLeq(call.v, call.l) => ret = RatOf(0)
        /\ RatLeq(call.r, call.v) => ret = RatOf(1)
        /\ (RatLess(call.l, call.v) /\ RatLess(call.v, call.r))
               => RatMul(ret, RatSub(call.r, call.l)) = RatSub(call.v, call.l)
        /\ RatLeq(RatOf(0), ret)
        /\ RatLeq(ret, RatOf(1))

\* C17 witness: linear_step(-1/2, 1, 0) = 1/3.
C17_Witness ==
    /\ pc = "linear_step"
    /\ call.l = <<0 - 1, 2>>
    /\ call.r = <<1, 1>>
    /\ call.v = <<0, 1>>
    /\ ret = <<1, 3>>

\* the corner the parameters f, each 0 or 1, select: x counts 1, y 2, z 4, t 8
CornerOf(f) ==
    LET bit(a) == IF f[a] = RatOf(1) THEN 2 ^ (a - 1) ELSE 0
        RECURSIVE sum(_)
        sum(a) == IF a = 0 THEN 0 ELSE bit(a) + sum(a - 1)
    IN  sum(Len(f))

\* C21: bilerp, trilerp and quadlerp return the corner sample the parameters
\* select when every parameter is 0 or 1, and along each axis the result is
\* the lerp, by that axis' parameter, of the results with the parameter set to
\* 0 and to 1.
C21_MultilinearLerp ==
    pc = "multilerp" =>
        /\ (\A a \in DOMAIN call.f : call.f[a] \in {RatOf(0), RatOf(1)})
               => ret = call.s[CornerOf(call.f)]
        /\ \A a \in DOMAIN call.f :
               ret = lerp_real(multilerp(call.s, [call.f EXCEPT ![a] = RatOf(0)]),
                               multilerp(call.s, [call.f EXCEPT ![a] = RatOf(1)]),
                               call.f[a])

\* C21 witness: quadlerp of the samples -1/2, 0, 1/2, ... at (1, 0, 1, 0) has
\* returned v1010 = 2, and bilerp at (1, 0) would return v10.
C21_Witness ==
    /\ pc = "multilerp"
    /\ call.op = "quadlerp"
    /\ call.s = [c \in 0..15 |-> Rat(c - 1, 2)]
    /\ call.f = <<RatOf(1), RatOf(0), RatOf(1), RatOf(0)>>
    /\ ret = RatOf(2)

(***************************************************************************)
(* mag, normalize, normalized on Vec<N,float>                              *)
(***************************************************************************)
\* operator/=(Vec& lhs, T a): the value lhs is left with
Vec_div_assign(T, lhs, a) == [i \in DOMAIN lhs |-> DivT(T, lhs[i], a)]

\* operator/(const Vec& lhs, T a): Vec w(lhs); w /= a;
Vec_div(T, lhs, a) == Vec_div_assign(T, lhs, a)

\* a magnitude without its square root
mag_unrooted(T, a) == mag2(T, a)

\* mag(const Vec& a): sqrt(mag2(a)), for T = float
mag(T, a) == FltSqrt(mag2(T, a))

\* normalize(Vec& a): a /= mag(a); the value a is left with
normalize(T, a) == Vec_div_assign(T, a, mag(T, a))

\* normalized(const Vec& a): a / mag(a)
normalized(T, a) == Vec_div(T, a, mag(T, a))

\* the exponents the sampled vectors are scaled by: 2^70 and 2^-80, whose
\* squares leave the range of float, and three in between
FltScales == {0 - 80, 0 - 20, 0, 20, 70}

\* integer vectors of integer length, and the zero vectors
UnitMultiples ==
    { Vec2(1, 0), Vec2(0, 0 - 1), Vec2(3, 4), Vec2(0 - 4, 3), Vec2(0, 0),
      Vec3(0, 0, 1), Vec3(1, 2, 2), Vec3(0, 3, 0 - 4), Vec3(2, 0 - 3, 6),
      Vec3(0, 0, 0) }

\* the vectors Vec<N,float> passed to normalize and normalized
FloatVecs ==
    {[i \in DOMAIN u |-> IF u[i] = 0 THEN FltZero ELSE FltNum(<<u[i], 1>>, k)] :
        u \in UnitMultiples, k \in FltScales}

InitFloat ==
    /\ pc = "start"
    /\ call = [op |-> None]
    /\ ret = None
    /\ v \in FloatVecs
    /\ amin = 0
    /\ amax = 0
    /\ n = {}
    /\ exponent = 0

\* normalize(v), in place
CallNormalize ==
    /\ pc = "start"
    /\ call' = [op |-> "normalize", a |-> v]
    /\ v' = normalize(FloatType, v)
    /\ ret' = v'
    /\ pc' = "normalized"
    /\ UNCHANGED <<amin, amax, n, exponent>>

\* Vec<N,float> r = normalized(v)
CallNormalized ==
    /\ pc = "start"
    /\ call' = [op |-> "normalized", a |-> v]
    /\ ret' = normalized(FloatType, v)
    /\ pc' = "normalized"
    /\ UNCHANGED <<v, amin, amax, n, exponent>>

\* float m = mag(r) of the vector just normalised
CallMag ==
    /\ pc = "normalized"
    /\ call' = [call EXCEPT !.op = "mag"] @@ [r |-> ret]
    /\ ret' = mag(FloatType, ret)
    /\ pc' = "measured"
    /\ UNCHANGED <<v, amin, amax, n, exponent>>

NextFloat == CallNormalize \/ CallNormalized \/ CallMag

SpecFloat == InitFloat /\ [][NextFloat]_vars

\* C22 as stated: for every nonzero vector a, normalized(a), and a after
\* normalize(a), has magnitude 1 within epsilon.  Significands being exact
\* here, "within epsilon" is equality.
C22_UnitMagnitudeAnyNonzero ==
    (pc = "measured" /\ \E i \in DOMAIN call.a : call.a[i] # FltZero)
        => ret = FltOf(1)

\* C22, amended: the same for every vector a whose squared magnitude mag2(a),
\* computed in the component type, is a normal number: it has not overflowed
\* to infinity and is neither zero nor subnormal.
C22_UnitMagnitudeInRange ==
    (pc = "measured" /\ FltIsNormal(mag2(FloatType, call.a)))
        => ret = FltOf(1)

\* C22 witness: a = (3 * 2^20, 4 * 2^20) normalised to (3/5, 4/5), of magnitude 1.
C22_Witness ==
    /\ pc = "measured"
    /\ call.a = Vec2(FltNum(<<3, 1>>, 20), FltNum(<<4, 1>>, 20))
    /\ call.r = Vec2(FltNum(<<3, 5>>, 0), FltNum(<<4, 5>>, 0))
    /\ ret = FltOf(1)


(***************************************************************************)
(* Termination of the two rounding loops                                   *)
(***************************************************************************)
\* A call that has begun runs on: the loop takes its next turn, or the
\* function returns.
SpecPow2Live == SpecPow2 /\ WF_vars(NextPow2)

\* what C23 says of each state: the turns taken, counted by exponent, and the
\* two calls with n = 0
C23_State ==
    pc # "start" =>
        /\ exponent <= IntBits
        /\ (call.op = "round_up_to_power_of_two" /\ call.n = {}) =>
              /\ (pc = "round_up_loop" /\ exponent = 0) => n = Bits(IntBits)
              /\ pc = "returned" => exponent = IntBits
        /\ (call.op = "round_down_to_power_of_two" /\ call.n = {}) =>
              /\ exponent = 0
              /\ pc = "returned" => ret = {0}

\* C23: the loops of round_up_to_power_of_two and round_down_to_power_of_two
\* terminate for every 32-bit unsigned input, 0 included, after at most 32
\* turns; for n = 0, round_up wraps n to 2^32 - 1 and leaves its loop with
\* exponent 32, and round_down skips its loop and returns 1.
C23_LoopsTerminate ==
    /\ []C23_State
    /\ (pc \in {"round_up_loop", "round_down_loop"}) ~> (pc = "returned")

\* C23 witness: round_up_to_power_of_two(0) has left its loop after 32 turns.
C23_Witness ==
    /\ pc = "returned"
    /\ call = [op |-> "round_up_to_power_of_two", n |-> {}]
    /\ n = {}
    /\ exponent = IntBits


(***************************************************************************)
(* update_minmax over a sequence of calls                                  *)
(***************************************************************************)
\* C24, for a pair that starts in order: starting from any pair (amin, amax)
\* with amin <= amax, after any non-empty sequence of
\* update_minmax(v_k, amin, amax) calls every value v_k passed so far satisfies
\* amin <= v_k <= amax.
C24_OrderedPairBracketsAll ==
    (pc = "update_minmax" /\ call.first[1] <= call.first[2]) =>
        \A k \in 1..Len(call.seen) :
            amin <= call.seen[k] /\ call.seen[k] <= amax

\* C24 witness: from the pair (0, 0), update_minmax has been passed 1, then -1,
\* then 0 and has left (-1, 1).
C24_Witness ==
    /\ pc = "update_minmax"
    /\ call.first = <<0, 0>>
    /\ call.seen = <<1, 0 - 1, 0>>
    /\ amin = 0 - 1
    /\ amax = 1

\* C24 as stated: starting from any pair (amin, amax), a pair with amin > amax included,
\* after any non-empty sequence of update_minmax(v_k, amin, amax) calls every
\* value v_k passed so far satisfies amin <= v_k <= amax.
C24_EveryValueBracketed ==
    pc = "update_minmax" =>
        \A k \in 1..Len(call.seen) :
            amin <= call.seen[k] /\ call.seen[k] <= amax


(***************************************************************************)
(* sort of three                                                           *)
(***************************************************************************)
\* the ways to rearrange three places
Permutations3 == {p \in [1..3 -> 1..3] : \A i, j \in 1..3 : p[i] = p[j] => i = j}

\* C26: sort(a, b, c) leaves its three reference arguments in non-decreasing
\* order (a <= b <= c) and as a permutation of their input values, for every
\* input triple, triples with equal values included.
C26_SortOrdersAndPermutes ==
    (pc = "returned" /\ call.op = "sort") =>
        /\ ret[1] <= ret[2]
        /\ ret[2] <= ret[3]
        /\ \E p \in Permutations3 : \A i \in 1..3 : ret[i] = call.args[p[i]]

\* C26 witness: sort on (1, 1, -1), a tie between a and b, has left (-1, 1, 1).
C26_Witness ==
    /\ pc = "returned"
    /\ call = [op |-> "sort", args |-> <<1, 1, 0 - 1>>]
    /\ ret = <<0 - 1, 1, 1>>


C27_TripleIsDotCross ==
    pc = "triple" =>
        /\ ret.abc = ret.dot_cross
        /\ ret.aac = 0
        /\ ret.dot_cross_aab = 0

\* C27 witness: on Vec<3,short>, a = (SHRT_MAX, SHRT_MIN, 1),
\* b = (-1, SHRT_MAX, 0) and c = (1, -1, SHRT_MAX): the components of
\* cross(b, c) and the products wrap, and both results are -32767.
C27_Witness ==
    /\ pc = "triple"
    /\ call.T.name = "short"
    /\ call.a = Vec3(MaxOf(call.T), MinOf(call.T), 1)
    /\ call.b = Vec3(0 - 1, MaxOf(call.T), 0)
    /\ call.c = Vec3(1, 0 - 1, MaxOf(call.T))
    /\ ret.abc = 0 - 32767
    /\ ret.dot_cross = 0 - 32767
    /\ ret.aac = 0

====
